---- MODULE Spec2Model ----
(***************************************************************************)
(* Verification model of the RADICAL worker (src/worker.js): the vote      *)
(* toggle handlers over the D1 store and the share-image renderer.         *)
(*                                                                         *)
(* A handler is a sequence of steps, one per store round trip (each        *)
(* `await env.DB...`), so that requests can be run one at a time or        *)
(* interleaved at the granularity of single store calls.                   *)
(***************************************************************************)
EXTENDS Integers, Sequences, FiniteSets, TLC

\* JS null / undefined, and "no row" as returned by .first()
NULL == "null"

\* ---------------------------------------------------------------- bounds
\* primary keys available to each table (an id is never shared by two rows)
MaxRowId == 2
\* request slots (worker invocations that can be in flight together)
NumProcs == 2
\* longest text given to the word wrap
MaxTextLen == 13
\* longest petition text given to the share image
MaxMarkupLen == 2
\* clock ticks in a calendar day
TicksPerDay == 2
\* most elements (tags, text, markers) in a page given to the customiser
MaxPageParts == 3
\* last reading of the clock
MaxTime == 2

RowIds == 1..MaxRowId
Procs == 1..NumProcs

\* ------------------------------------------------------------ input values
UserIds == {"u1", "u2"}
\* "sideways" stands for any string outside the enum, "" for a missing field
VoteTypes == {"upvote", "downvote"}

DetailFields == {"fullName", "address", "postcode", "dob", "email"}
DetailsA ==
  [fullName |-> "nA", address |-> "aA", postcode |-> "pA", dob |-> "dA", email |-> "eA"]
DetailsB ==
  [fullName |-> "nB", address |-> "aB", postcode |-> "pB", dob |-> "dB", email |-> "eB"]
\* DetailsA with one field left out
Lacking(f) == [DetailsA EXCEPT ![f] = ""]
CompleteDetails == {DetailsA, DetailsB}
IncompleteDetails == {Lacking(f) : f \in DetailFields}

\* petitionDetails absent from the request body (the default null)
NoDetails == [absent |-> TRUE]

\* !x of JavaScript for a string field: true of the empty or missing string
Falsy(x) == x = ""

\* slot values before any request: no request, no row read, no response
NoRequest == [kind |-> "none"]
NoRow == [id |-> 0]
NoResponse == [status |-> 0]

VARIABLES
  users,             \* table users: rows [id, name]
  proposals,         \* table proposals: rows [id, author_id, timestamp, meme_url, share_image_url]
  comments,          \* table comments: the ids present
  votes,             \* table votes: rows [id, proposal_id, user_id, vote_type, is_petition]
  comment_votes,     \* table comment_votes: rows [id, comment_id, user_id, vote_type]
  petition_details,  \* table petition_details
  bucket,            \* blob store MEMES_BUCKET: the keys present
  pc,                \* per request slot: the handler's position
  req,               \* per request slot: the parsed request body
  existingVote,      \* per request slot: the handler's local existingVote / petitionCheck / existingUser
  resp,              \* per request slot: the response returned
  calls,             \* per request slot: the store calls made so far by the request
  pre,               \* per request slot: the three vote tables when the request arrived
  last,              \* the request completed just before the current one
  svgIn,             \* the renderer's input
  svgOut,            \* the renderer's output
  edgeCache,         \* caches.default of the caching router: entries [key, response]
  swCaches           \* CacheStorage of the service worker: entries [cache, url, status, type, by]

\* CacheStorage before the service worker is installed: no entry in any cache
NoCaches == {}

\* SELECT id FROM proposals
ProposalIds == {row.id : row \in proposals}

\* the proposals table before any request: one proposal of user u1
\* a URL column that is NULL (a URL is a sequence of path segments)
NoUrl == <<>>

InitialProposals ==
  {[id |-> "p1", author_id |-> "u1", timestamp |-> 1, meme_url |-> NoUrl, share_image_url |-> NoUrl]}

storeVars == <<users, proposals, comments, votes, comment_votes, petition_details, bucket>>
procVars == <<pc, req, existingVote, resp, calls, pre, last>>
svgVars == <<svgIn, svgOut>>
vars == <<users, proposals, comments, votes, comment_votes, petition_details, bucket,
          pc, req, existingVote, resp, calls, pre, last, svgIn, svgOut,
          edgeCache, swCaches>>
cacheVars == <<edgeCache, swCaches>>

\* ------------------------------------------------------------------ store
Snapshot ==
  [votes |-> votes, comment_votes |-> comment_votes, petition_details |-> petition_details]

\* the rows of a (proposal, user) pair, in votes or in petition_details
VotesOf(tbl, proposalId, userId) ==
  {v \in tbl : v.proposal_id = proposalId /\ v.user_id = userId}

\* the rows of a (comment, user) pair
CommentVotesOf(tbl, commentId, userId) ==
  {v \in tbl : v.comment_id = commentId /\ v.user_id = userId}

FreeIds(tbl) == RowIds \ {r.id : r \in tbl}

\* ----------------------------------------------------------- request slots
Idle(p) == pc[p] \in {"idle", "done"}

\* The ids the store can give a row inserted by slot p: any id no row of the
\* table has.  While no other handler is in flight nobody holds a row id, so
\* every choice gives the same tables up to a renaming of ids, and the least
\* one is taken.
NewIds(p, tbl) ==
  IF \A q \in Procs \ {p} : Idle(q)
  THEN {id \in FreeIds(tbl) : \A other \in FreeIds(tbl) : id <= other}
  ELSE FreeIds(tbl)

NoLast == [req |-> NoRequest, fresh |-> FALSE, held |-> {}]

\* rows of the request's (subject, user) pair in a snapshot of the tables
PairRows(snap, r) ==
  IF r.kind = "vote" THEN VotesOf(snap.votes, r.proposalId, r.userId)
  ELSE IF r.kind = "comment_vote" THEN CommentVotesOf(snap.comment_votes, r.commentId, r.userId)
  ELSE {}

\* what is remembered of the request finished in slot p when the next one arrives
Summary(p) ==
  IF pc[p] = "done" /\ req[p] # NoRequest
  THEN [req |-> req[p], fresh |-> PairRows(pre[p], req[p]) = {},
        held |-> {v.vote_type : v \in PairRows(pre[p], req[p])}]
  ELSE NoLast

\* a request arrives in slot p.  track says what is remembered for the
\* properties: "last" the tables on arrival and the request before this one,
\* "pre" the tables on arrival, "none" neither
Arrive(p, r, track) ==
  /\ Idle(p)
  /\ req' = [req EXCEPT ![p] = r]
  /\ pre' = IF track = "none" THEN pre ELSE [pre EXCEPT ![p] = Snapshot]
  /\ existingVote' = [existingVote EXCEPT ![p] = NoRow]
  /\ last' = IF track = "last" THEN Summary(p) ELSE last

\* the headers createResponse sets when it is called without a cacheDuration
\* (no call of the worker passes one): JSON, the CORS headers, one day of caching
JsonHeaders ==
  [contentType |-> "application/json", cors |-> TRUE, cacheControl |-> "public, max-age=86400"]

\* createResponse(body, status)
createResponse(body, status) == [status |-> status, body |-> body, headers |-> JsonHeaders]

\* the handler in slot p returns
Return(p, response) ==
  /\ pc' = [pc EXCEPT ![p] = "done"]
  /\ resp' = [resp EXCEPT ![p] = response]

Goto(p, label) ==
  /\ pc' = [pc EXCEPT ![p] = label]
  /\ resp' = [resp EXCEPT ![p] = NoResponse]

Called(p, cs) == calls' = [calls EXCEPT ![p] = calls[p] \o cs]

\* ------------------------------------------------- createOrUpdateVote
VoteRequest(proposalId, userId, voteType, isPetition, petitionDetails) ==
  [kind |-> "vote", proposalId |-> proposalId, userId |-> userId, voteType |-> voteType,
   isPetition |-> isPetition, petitionDetails |-> petitionDetails]

\* the is_petition column written by the INSERT and the UPDATE
PetitionFlag(r) == IF r.voteType = "upvote" /\ r.isPetition THEN 1 ELSE 0

\* mutant: the block is entered whatever the vote type
HasPetitionPayloadAnyType(r) == r.isPetition /\ r.petitionDetails # NoDetails

\* the petition block is entered
HasPetitionPayload(r) ==
  r.voteType = "upvote" /\ r.isPetition /\ r.petitionDetails # NoDetails

\* mutant: the email field is not looked at
DetailsIncompleteNoEmail(d) == \E f \in DetailFields \ {"email"} : Falsy(d[f])

\* !fullName || !address || !postcode || !dob || !email
DetailsIncomplete(d) == \E f \in DetailFields : Falsy(d[f])

\* mutant: the user's existence is not checked
VoteCheckNoUserCheck(r) ==
  IF Falsy(r.proposalId) \/ Falsy(r.userId) \/ Falsy(r.voteType)
  THEN [calls |-> <<>>,
        response |-> createResponse([error |-> "Missing required fields"], 400)]
  ELSE IF r.voteType # "upvote" /\ r.voteType # "downvote"
  THEN [calls |-> <<>>,
        response |-> createResponse([error |-> "Invalid vote type", voteType |-> r.voteType], 400)]
  ELSE IF r.proposalId \notin ProposalIds
  THEN [calls |-> <<"SELECT proposals">>,
        response |-> createResponse([error |-> "Proposal does not exist"], 404)]
  ELSE [calls |-> <<"SELECT proposals">>, response |-> NoResponse]

\* validation and the two existence checks: the store calls made and the
\* response they end in, NoResponse when the handler goes on to the vote lookup
VoteCheck(r) ==
  IF Falsy(r.proposalId) \/ Falsy(r.userId) \/ Falsy(r.voteType)
  THEN [calls |-> <<>>,
        response |-> createResponse([error |-> "Missing required fields"], 400)]
  ELSE IF r.voteType # "upvote" /\ r.voteType # "downvote"
  THEN [calls |-> <<>>,
        response |-> createResponse([error |-> "Invalid vote type", voteType |-> r.voteType], 400)]
  ELSE IF ~ \E u \in users : u.id = r.userId
  THEN [calls |-> <<"SELECT users">>,
        response |-> createResponse([error |-> "User does not exist"], 404)]
  ELSE IF r.proposalId \notin ProposalIds
  THEN [calls |-> <<"SELECT users", "SELECT proposals">>,
        response |-> createResponse([error |-> "Proposal does not exist"], 404)]
  ELSE [calls |-> <<"SELECT users", "SELECT proposals">>, response |-> NoResponse]

\* request.json(), validation, SELECT users, SELECT proposals.  The two
\* SELECTs are taken together with the arrival: no handler deletes a user or
\* a proposal, so a check that finds the row would find it at any later time.
VoteArrive(p, r, track) ==
  /\ Arrive(p, r, track)
  /\ calls' = [calls EXCEPT ![p] = VoteCheck(r).calls]
  /\ IF VoteCheck(r).response # NoResponse
     THEN Return(p, VoteCheck(r).response)
     ELSE Goto(p, "vote_lookup")
  /\ UNCHANGED <<storeVars, svgVars, cacheVars>>

\* mutant: the two ids are bound in the wrong order
SelectVotesSwapped(tbl, proposalId, userId) ==
  {v \in tbl : v.proposal_id = userId /\ v.user_id = proposalId}

\* ... FROM votes WHERE proposal_id = ? AND user_id = ?
SelectVotes(tbl, proposalId, userId) ==
  {v \in tbl : v.proposal_id = proposalId /\ v.user_id = userId}

\* SELECT id, vote_type, is_petition FROM votes WHERE proposal_id = ? AND user_id = ?
\* .first(): some matching row (the statement has no ORDER BY), or none
VoteLookup(p) ==
  /\ pc[p] = "vote_lookup"
  /\ LET found == SelectVotes(votes, req[p].proposalId, req[p].userId) IN
       IF found = {}
       THEN existingVote' = [existingVote EXCEPT ![p] = NoRow]
       ELSE \E v \in found :
              existingVote' = [existingVote EXCEPT ![p] =
                 [id |-> v.id, vote_type |-> v.vote_type, is_petition |-> v.is_petition]]
  /\ Called(p, <<"SELECT votes">>)
  /\ Goto(p, "vote_write")
  /\ UNCHANGED <<storeVars, req, pre, last, svgVars, cacheVars>>

\* mutant: the DELETE is bound to another id and removes nothing
DeleteVoteOtherId(tbl, id) == {v \in tbl : v.id # id + MaxRowId}

\* DELETE FROM votes WHERE id = ?
DeleteVote(tbl, id) == {v \in tbl : v.id # id}

\* mutant: the UPDATE sets the petition flag and leaves vote_type as it was
UpdateVoteKeepsType(tbl, id, r) ==
  {IF v.id = id THEN [v EXCEPT !.is_petition = PetitionFlag(r)] ELSE v : v \in tbl}

\* UPDATE votes SET vote_type = ?, timestamp = ?, is_petition = ? WHERE id = ?
UpdateVote(tbl, id, r) ==
  {IF v.id = id THEN [v EXCEPT !.vote_type = r.voteType, !.is_petition = PetitionFlag(r)]
   ELSE v : v \in tbl}

\* mutant: the insert is skipped when the pair already has a row, as under
\* a unique constraint on (proposal_id, user_id) with INSERT OR IGNORE
InsertVoteIfAbsent(tbl, id, r) ==
  IF \E v \in tbl : v.proposal_id = r.proposalId /\ v.user_id = r.userId
  THEN tbl
  ELSE tbl \cup {[id |-> id, proposal_id |-> r.proposalId, user_id |-> r.userId,
                  vote_type |-> r.voteType, is_petition |-> PetitionFlag(r)]}

\* INSERT INTO votes (proposal_id, user_id, vote_type, timestamp, is_petition);
\* the store assigns the row id
InsertVote(tbl, id, r) ==
  tbl \cup {[id |-> id, proposal_id |-> r.proposalId, user_id |-> r.userId,
             vote_type |-> r.voteType, is_petition |-> PetitionFlag(r)]}

\* after the insert or update: the petition block, up to its first store call
AfterVoteWrite(p) ==
  LET r == req[p] IN
  IF HasPetitionPayload(r)
  THEN IF DetailsIncomplete(r.petitionDetails)
       THEN Return(p, createResponse([error |-> "Missing required petition details"], 400))
       ELSE Goto(p, "petition_check")
  ELSE Return(p, createResponse([voteType |-> r.voteType,
                                 isPetition |-> r.voteType = "upvote" /\ r.isPetition], 200))

\* the toggle: delete, update or insert
VoteWrite(p) ==
  /\ pc[p] = "vote_write"
  /\ LET r == req[p]
         e == existingVote[p] IN
       IF e # NoRow
       THEN IF e.vote_type = r.voteType
            THEN /\ votes' = DeleteVote(votes, e.id)
                 /\ Called(p, <<"DELETE votes">>)
                 /\ Return(p, createResponse([voteType |-> NULL], 200))
            ELSE /\ votes' = UpdateVote(votes, e.id, r)
                 /\ Called(p, <<"UPDATE votes">>)
                 /\ AfterVoteWrite(p)
       ELSE /\ \E id \in NewIds(p, votes) : votes' = InsertVote(votes, id, r)
            /\ Called(p, <<"INSERT votes">>)
            /\ AfterVoteWrite(p)
  /\ UNCHANGED <<users, proposals, comments, bucket, comment_votes, petition_details,
                 req, existingVote, pre, last, svgVars, cacheVars>>

\* ... FROM petition_details WHERE user_id = ? AND proposal_id = ?
SelectPetition(tbl, userId, proposalId) ==
  {d \in tbl : d.user_id = userId /\ d.proposal_id = proposalId}

\* SELECT id FROM petition_details WHERE user_id = ? AND proposal_id = ?
PetitionCheck(p) ==
  /\ pc[p] = "petition_check"
  /\ LET found == SelectPetition(petition_details, req[p].userId, req[p].proposalId) IN
       IF found = {}
       THEN existingVote' = [existingVote EXCEPT ![p] = NoRow]
       ELSE \E d \in found : existingVote' = [existingVote EXCEPT ![p] = [id |-> d.id]]
  /\ Called(p, <<"SELECT petition_details">>)
  /\ Goto(p, "petition_write")
  /\ UNCHANGED <<storeVars, req, pre, last, svgVars, cacheVars>>

\* INSERT INTO petition_details (..., verified) VALUES (..., 1)
InsertPetition(tbl, id, r) ==
  tbl \cup {[id |-> id, user_id |-> r.userId, proposal_id |-> r.proposalId,
             full_name |-> r.petitionDetails.fullName, address |-> r.petitionDetails.address,
             postcode |-> r.petitionDetails.postcode, dob |-> r.petitionDetails.dob,
             email |-> r.petitionDetails.email, verified |-> 1]}

\* mutant: the update leaves the stored email as it was
UpdatePetitionKeepsEmail(tbl, r) ==
  {IF d.user_id = r.userId /\ d.proposal_id = r.proposalId
   THEN [d EXCEPT !.full_name = r.petitionDetails.fullName,
                  !.address = r.petitionDetails.address,
                  !.postcode = r.petitionDetails.postcode,
                  !.dob = r.petitionDetails.dob,
                  !.verified = 1]
   ELSE d : d \in tbl}

\* UPDATE petition_details SET ... verified = 1 WHERE user_id = ? AND proposal_id = ?
UpdatePetition(tbl, r) ==
  {IF d.user_id = r.userId /\ d.proposal_id = r.proposalId
   THEN [d EXCEPT !.full_name = r.petitionDetails.fullName,
                  !.address = r.petitionDetails.address,
                  !.postcode = r.petitionDetails.postcode,
                  !.dob = r.petitionDetails.dob,
                  !.email = r.petitionDetails.email,
                  !.verified = 1]
   ELSE d : d \in tbl}

PetitionWrite(p) ==
  /\ pc[p] = "petition_write"
  /\ LET r == req[p] IN
       /\ IF existingVote[p] = NoRow
          THEN /\ \E id \in NewIds(p, petition_details) :
                    petition_details' = InsertPetition(petition_details, id, r)
               /\ Called(p, <<"INSERT petition_details">>)
          ELSE /\ petition_details' = UpdatePetition(petition_details, r)
               /\ Called(p, <<"UPDATE petition_details">>)
       /\ Return(p, createResponse([voteType |-> r.voteType,
                                    isPetition |-> r.voteType = "upvote" /\ r.isPetition], 200))
  /\ UNCHANGED <<users, proposals, comments, bucket, votes, comment_votes,
                 req, existingVote, pre, last, svgVars, cacheVars>>

\* ------------------------------------------- createOrUpdateCommentVote
CommentVoteRequest(commentId, userId, voteType) ==
  [kind |-> "comment_vote", commentId |-> commentId, userId |-> userId, voteType |-> voteType]

CommentVoteCheck(r) ==
  IF Falsy(r.commentId) \/ Falsy(r.userId) \/ Falsy(r.voteType)
  THEN [calls |-> <<>>,
        response |-> createResponse([error |-> "Missing required fields"], 400)]
  ELSE IF r.voteType # "upvote" /\ r.voteType # "downvote"
  THEN [calls |-> <<>>,
        response |-> createResponse([error |-> "Invalid vote type", voteType |-> r.voteType], 400)]
  ELSE IF ~ \E u \in users : u.id = r.userId
  THEN [calls |-> <<"SELECT users">>,
        response |-> createResponse([error |-> "User does not exist"], 404)]
  ELSE IF r.commentId \notin comments
  THEN [calls |-> <<"SELECT users", "SELECT comments">>,
        response |-> createResponse([error |-> "Comment does not exist"], 404)]
  ELSE [calls |-> <<"SELECT users", "SELECT comments">>, response |-> NoResponse]

\* request.json(), validation, SELECT users, SELECT comments (no handler
\* deletes a user or a comment)
CommentVoteArrive(p, r, track) ==
  /\ Arrive(p, r, track)
  /\ calls' = [calls EXCEPT ![p] = CommentVoteCheck(r).calls]
  /\ IF CommentVoteCheck(r).response # NoResponse
     THEN Return(p, CommentVoteCheck(r).response)
     ELSE Goto(p, "comment_vote_lookup")
  /\ UNCHANGED <<storeVars, svgVars, cacheVars>>

\* ... FROM comment_votes WHERE comment_id = ? AND user_id = ?
SelectCommentVotes(tbl, commentId, userId) ==
  {v \in tbl : v.comment_id = commentId /\ v.user_id = userId}

\* SELECT id, vote_type FROM comment_votes WHERE comment_id = ? AND user_id = ?
CommentVoteLookup(p) ==
  /\ pc[p] = "comment_vote_lookup"
  /\ LET found == SelectCommentVotes(comment_votes, req[p].commentId, req[p].userId) IN
       IF found = {}
       THEN existingVote' = [existingVote EXCEPT ![p] = NoRow]
       ELSE \E v \in found :
              existingVote' = [existingVote EXCEPT ![p] = [id |-> v.id, vote_type |-> v.vote_type]]
  /\ Called(p, <<"SELECT comment_votes">>)
  /\ Goto(p, "comment_vote_write")
  /\ UNCHANGED <<storeVars, req, pre, last, svgVars, cacheVars>>

\* DELETE FROM comment_votes WHERE id = ?
DeleteCommentVote(tbl, id) == {v \in tbl : v.id # id}

\* UPDATE comment_votes SET vote_type = ?, timestamp = ? WHERE id = ?
UpdateCommentVote(tbl, id, r) ==
  {IF v.id = id THEN [v EXCEPT !.vote_type = r.voteType] ELSE v : v \in tbl}

\* INSERT INTO comment_votes (id, comment_id, user_id, vote_type, timestamp);
\* the id is 'comment_vote_' + Date.now() + '_' + 5 random characters
InsertCommentVote(tbl, id, r) ==
  tbl \cup {[id |-> id, comment_id |-> r.commentId, user_id |-> r.userId,
             vote_type |-> r.voteType]}

CommentVoteWrite(p) ==
  /\ pc[p] = "comment_vote_write"
  /\ LET r == req[p]
         e == existingVote[p] IN
       IF e # NoRow
       THEN IF e.vote_type = r.voteType
            THEN /\ comment_votes' = DeleteCommentVote(comment_votes, e.id)
                 /\ Called(p, <<"DELETE comment_votes">>)
                 /\ Return(p, createResponse([voteType |-> NULL, action |-> "removed"], 200))
            ELSE /\ comment_votes' = UpdateCommentVote(comment_votes, e.id, r)
                 /\ Called(p, <<"UPDATE comment_votes">>)
                 /\ Return(p, createResponse([voteType |-> r.voteType, action |-> "updated"], 200))
       ELSE /\ \E id \in NewIds(p, comment_votes) :
                 comment_votes' = InsertCommentVote(comment_votes, id, r)
            /\ Called(p, <<"INSERT comment_votes">>)
            /\ Return(p, createResponse([voteType |-> r.voteType, action |-> "created"], 200))
  /\ UNCHANGED <<users, proposals, comments, bucket, votes, petition_details,
                 req, existingVote, pre, last, svgVars, cacheVars>>

\* ----------------------------------------------------- createOrGetUser
UserRequest(id, name) == [kind |-> "user", id |-> id, name |-> name]

\* request.json() and the check of the two required fields
UserArrive(p, r, track) ==
  /\ Arrive(p, r, track)
  /\ calls' = [calls EXCEPT ![p] = <<>>]
  /\ IF Falsy(r.id) \/ Falsy(r.name)
     THEN Return(p, createResponse([error |-> "Missing required fields"], 400))
     ELSE Goto(p, "user_lookup")
  /\ UNCHANGED <<storeVars, svgVars, cacheVars>>

\* SELECT id, name FROM users WHERE id = ?
UserLookup(p) ==
  /\ pc[p] = "user_lookup"
  /\ LET found == {u \in users : u.id = req[p].id} IN
       IF found = {}
       THEN existingVote' = [existingVote EXCEPT ![p] = NoRow]
       ELSE \E u \in found : existingVote' = [existingVote EXCEPT ![p] = u]
  /\ Called(p, <<"SELECT users">>)
  /\ Goto(p, "user_write")
  /\ UNCHANGED <<storeVars, req, pre, last, svgVars, cacheVars>>

\* INSERT INTO users (id, name, created_at) when the lookup found no row;
\* the response carries the id and name of the request
UserWrite(p) ==
  /\ pc[p] = "user_write"
  /\ IF existingVote[p] = NoRow
     THEN /\ users' = users \cup {[id |-> req[p].id, name |-> req[p].name]}
          /\ Called(p, <<"INSERT users">>)
     ELSE UNCHANGED <<users, calls>>
  /\ Return(p, createResponse([id |-> req[p].id, name |-> req[p].name], 200))
  /\ UNCHANGED <<proposals, comments, bucket, votes, comment_votes, petition_details,
                 req, existingVote, pre, last, svgVars, cacheVars>>

\* ------------------------------------------------------ service worker
\* A URL is an origin ("same" for the page's own, "other" otherwise) and the
\* sequence of its path segments.
CACHE_NAME == "radical-cache-v1"

Url(origin, path) == [origin |-> origin, path |-> path]

urlsToCache ==
  { Url("same", <<>>), Url("same", <<"styles.css">>),
    Url("other", <<"memes", "favicon.jpg">>), Url("other", <<"css2">>) }

\* a fetch event's request
SwRequest(method, url) == [kind |-> "sw", method |-> method, url |-> url]

\* event.request.url.includes('/api/'): a segment api with a segment after it
IncludesApi(url) == \E i \in 1..Len(url.path) - 1 : url.path[i] = "api"

\* caches.match(event.request): the entries of any cache stored for the URL
\* of a GET request
SwMatch(r) == {e \in swCaches : r.method = "GET" /\ e.url = r.url}

\* the cached response of an entry
SwResponse(e) == [status |-> e.status, type |-> e.type]

\* cache.put(request, response) in the cache CACHE_NAME, the entry of the
\* URL replaced; by names the handler that put the entry
SwPut(url, response, by) ==
  {e \in swCaches : ~ (e.cache = CACHE_NAME /\ e.url = url)}
    \cup {[cache |-> CACHE_NAME, url |-> url, status |-> response.status,
           type |-> response.type, by |-> by]}

\* mutant: the status of the response is not looked at
CacheableAnyStatus(response) == response.type = "basic"

\* !(!response || response.status !== 200 || response.type !== 'basic')
Cacheable(response) == response.status = 200 /\ response.type = "basic"

\* the outcomes of fetch(request) over the network: a response whose type is
\* basic for the page's origin and cors or opaque for another, or no response
NetworkError == [status |-> 0, type |-> "error"]
NetworkResponses(url) ==
  IF url.origin = "same"
  THEN [status : {200, 404, 500}, type : {"basic"}]
  ELSE [status : {200, 404}, type : {"cors"}] \cup {[status |-> 0, type |-> "opaque"]}

\* install: cache.addAll(urlsToCache) stores the response of every URL when
\* all of them are fetched with an ok status, and nothing otherwise
SwInstall ==
  /\ \A p \in Procs : Idle(p)
  /\ \E ok \in BOOLEAN :
       swCaches' =
         IF ok
         THEN {e \in swCaches : ~ (e.cache = CACHE_NAME /\ e.url \in urlsToCache)}
                \cup {[cache |-> CACHE_NAME, url |-> url, status |-> 200,
                       type |-> IF url.origin = "same" THEN "basic" ELSE "cors",
                       by |-> "install"] : url \in urlsToCache}
         ELSE swCaches
  /\ UNCHANGED <<storeVars, procVars, svgVars, edgeCache>>

\* activate: every cache whose name is not CACHE_NAME is deleted
SwActivate ==
  /\ \A p \in Procs : Idle(p)
  /\ swCaches' = {e \in swCaches : e.cache = CACHE_NAME}
  /\ UNCHANGED <<storeVars, procVars, svgVars, edgeCache>>

\* fetch: the cached response when the request matches an entry; otherwise
\* the network's response, put into the cache when it is cacheable and the
\* URL does not include /api/ (cache.put refuses a request that is no GET)
SwFetch(p, r) ==
  /\ Arrive(p, r, "none")
  /\ IF SwMatch(r) # {}
     THEN /\ \E e \in SwMatch(r) : Return(p, SwResponse(e))
          /\ calls' = [calls EXCEPT ![p] = <<"caches.match">>]
          /\ UNCHANGED swCaches
     ELSE \E response \in NetworkResponses(r.url) \cup {NetworkError} :
          /\ Return(p, response)
          /\ IF response # NetworkError /\ Cacheable(response) /\ ~IncludesApi(r.url)
                  /\ r.method = "GET"
             THEN /\ swCaches' = SwPut(r.url, response, "fetch")
                  /\ calls' = [calls EXCEPT ![p] = <<"caches.match", "fetch", "cache.put">>]
             ELSE /\ UNCHANGED swCaches
                  /\ calls' = [calls EXCEPT ![p] = <<"caches.match", "fetch">>]
  /\ UNCHANGED <<storeVars, svgVars, edgeCache>>

\* ------------------------------------------------- share-image renderer
\* A string is the sequence of its characters.
avgCharWidth == 22
lineHeight == 46
maxLines == 6

Min(a, b) == IF a <= b THEN a ELSE b

\* text.split(' '), from position i on, word being the characters read
\* since the last space
RECURSIVE SplitFrom(_, _, _)
SplitFrom(text, i, word) ==
  IF i > Len(text) THEN <<word>>
  ELSE IF text[i] = " " THEN <<word>> \o SplitFrom(text, i + 1, <<>>)
  ELSE SplitFrom(text, i + 1, Append(word, text[i]))

split(text) == SplitFrom(text, 1, <<>>)

\* Math.floor(width / avgCharWidth)
charsPerLine(width) == width \div avgCharWidth

\* the loop over the words, from word i on, and the push of the last line
RECURSIVE WrapFrom(_, _, _, _, _)
WrapFrom(words, i, lines, currentLine, perLine) ==
  IF i > Len(words)
  THEN IF currentLine # <<>> THEN Append(lines, currentLine) ELSE lines
  ELSE LET word == words[i]
           testLine == IF currentLine # <<>> THEN currentLine \o <<" ">> \o word ELSE word
       IN IF Len(testLine) <= perLine
          THEN WrapFrom(words, i + 1, lines, testLine, perLine)
          ELSE WrapFrom(words, i + 1, Append(lines, currentLine), word, perLine)

\* the lines before the limit of six is applied
WrapLines(text, width) == WrapFrom(split(text), 1, <<>>, <<>>, charsPerLine(width))

\* s.slice(0, -3)
DropLast3(s) == SubSeq(s, 1, Len(s) - 3)

\* mutant: one line too many is kept
LimitLinesOffByOne(lines) ==
  LET limitedLines == SubSeq(lines, 1, Min(maxLines + 1, Len(lines))) IN
  IF Len(lines) > maxLines + 1
  THEN [limitedLines EXCEPT ![maxLines + 1] = DropLast3(limitedLines[maxLines + 1]) \o <<".", ".", ".">>]
  ELSE limitedLines

\* lines.slice(0, 6), the sixth line ending in an ellipsis when lines were cut
LimitLines(lines) ==
  LET limitedLines == SubSeq(lines, 1, Min(maxLines, Len(lines))) IN
  IF Len(lines) > maxLines
  THEN [limitedLines EXCEPT ![maxLines] = DropLast3(limitedLines[maxLines]) \o <<".", ".", ".">>]
  ELSE limitedLines

\* text.replace(/c/g, entity)
RECURSIVE ReplaceAll(_, _, _)
ReplaceAll(text, c, entity) ==
  IF text = <<>> THEN <<>>
  ELSE (IF Head(text) = c THEN entity ELSE <<Head(text)>>) \o ReplaceAll(Tail(text), c, entity)

AmpEntity == <<"&", "a", "m", "p", ";">>
LtEntity == <<"&", "l", "t", ";">>
GtEntity == <<"&", "g", "t", ";">>
QuotEntity == <<"&", "q", "u", "o", "t", ";">>
AposEntity == <<"&", "#", "0", "3", "9", ";">>

\* the five replacements, in the order of the source
escapeHTML(text) ==
  ReplaceAll(ReplaceAll(ReplaceAll(ReplaceAll(ReplaceAll(text,
    "&", AmpEntity), "<", LtEntity), ">", GtEntity), "\"", QuotEntity), "'", AposEntity)

\* the <text> elements returned: the position and the escaped content of each
generateSVGTextLines(text, x, y, width) ==
  LET limitedLines == LimitLines(WrapLines(text, width)) IN
  [index \in 1..Len(limitedLines) |->
     [x |-> x, y |-> y + (index - 1) * lineHeight, content |-> escapeHTML(limitedLines[index])]]

\* s.slice(-6)
Last6(s) == SubSeq(s, IF Len(s) > 6 THEN Len(s) - 5 ELSE 1, Len(s))

\* new Date(ms).toLocaleDateString(...): the calendar day of the instant
toLocaleDateString(ms) == ms \div TicksPerDay

\* the markup as the sequence of the values interpolated into the template,
\* in the order of the template; now is what Date.now() reads at the call
generatePetitionSVG(proposal, now) ==
  LET petitionText == IF proposal.text = <<>>
                      THEN <<"U", "n", "k", "n", "o", "w", "n", " ", "p", "e", "t", "i", "t", "i", "o", "n">>
                      ELSE proposal.text
      upvotes == proposal.upvotes
      downvotes == proposal.downvotes
      netVotes == upvotes - downvotes
      netVotesSign == IF netVotes > 0 THEN "+" ELSE ""
      netVotesColor == IF netVotes > 0 THEN "#11cc77"
                       ELSE IF netVotes < 0 THEN "#ff0099" ELSE "#ffffff"
      proposalId == IF proposal.id = <<>> THEN <<"u", "n", "k", "n", "o", "w", "n">> ELSE proposal.id
      timestamp == toLocaleDateString(IF proposal.timestamp = 0 THEN now ELSE proposal.timestamp)
      textLines == generateSVGTextLines(petitionText, 120, 220, 960)
  IN [index \in 1..Len(textLines) |->
        [from |-> "text", chars |-> textLines[index].content]]
     \o << [from |-> "upvotes", value |-> upvotes],
           [from |-> "downvotes", value |-> downvotes],
           [from |-> "netVotesColor", value |-> netVotesColor],
           [from |-> "netVotesDisplay", sign |-> netVotesSign, value |-> netVotes],
           [from |-> "id", chars |-> proposalId],
           [from |-> "timestamp", value |-> timestamp],
           [from |-> "id", chars |-> Last6(proposalId)] >>

\* ------------------------------------------------ single-step handlers
\* The handlers below are taken in one step each.  A request carries, next
\* to what the client sent, the choices of the environment while it is
\* served: env.id (the random part of a new id), env.now (what Date.now()
\* reads) and env.fails (the downstream calls that fail, by name).
Env(id, now, fails) == [id |-> id, now |-> now, fails |-> fails]

Http(method, path, params, env) ==
  [kind |-> "http", method |-> method, path |-> path, params |-> params, env |-> env]

\* what a handler leaves behind: its response, the downstream calls it made
\* and the tables and the bucket after it
Outcome(response, cs, us, ps, cms, bkt) ==
  [response |-> response, calls |-> cs, users |-> us, proposals |-> ps,
   comments |-> cms, bucket |-> bkt]

\* a handler that answers without writing
Answer(response, cs) == Outcome(response, cs, users, proposals, comments, bucket)

\* mutant: no handler notices a failed call
FailsNever(r, call) == FALSE

Fails(r, call) == call \in r.env.fails

\* new Response(text, {status}): no JSON, no CORS header, no Cache-Control
PlainResponse(body, status) ==
  [status |-> status, body |-> body,
   headers |-> [contentType |-> "text/plain", cors |-> FALSE, cacheControl |-> NULL]]

\* generateAndStoreShareImage: the put into the bucket and the URL returned,
\* the fallback URL when the put fails
generateAndStoreShareImage(r, id) ==
  IF Fails(r, "PUT bucket")
  THEN [url |-> <<"memes", "petition-template.png">>, bucket |-> bucket]
  ELSE [url |-> <<"memes", "share", id>>, bucket |-> bucket \cup {<<"share", id>>}]

\* mutant: the author is taken to exist
AuthorMissingNever(authorId) == FALSE

\* !userCheck, for the row of SELECT id, name FROM users WHERE id = ?
AuthorMissing(authorId) == ~ \E u \in users : u.id = authorId

createProposal(r) ==
  LET text == r.params.text
      authorId == r.params.authorId
      id == r.env.id
      timestamp == r.env.now
      row == [id |-> id, author_id |-> authorId, timestamp |-> timestamp,
              meme_url |-> NoUrl, share_image_url |-> NoUrl]
      image == generateAndStoreShareImage(r, id)
      updated == [row EXCEPT !.share_image_url = image.url]
  IN IF Falsy(text) \/ Falsy(authorId)
     THEN Answer(createResponse([error |-> "Missing required fields"], 400), <<>>)
     ELSE IF Fails(r, "SELECT users")
     THEN Answer(createResponse([error |-> "Failed to verify user"], 500), <<"SELECT users">>)
     ELSE IF AuthorMissing(authorId)
     THEN Answer(createResponse([error |-> "Author does not exist"], 400), <<"SELECT users">>)
     ELSE IF Fails(r, "INSERT proposals")
     THEN Answer(createResponse([error |-> "Failed to insert proposal into database"], 500),
                 <<"SELECT users", "INSERT proposals">>)
     ELSE Outcome(createResponse([id |-> id, authorId |-> authorId, timestamp |-> timestamp,
                                  shareImageUrl |-> image.url], 200),
                  <<"SELECT users", "INSERT proposals", "PUT bucket", "UPDATE proposals">>,
                  users,
                  proposals \cup {IF Fails(r, "UPDATE proposals") THEN row ELSE updated},
                  comments,
                  image.bucket)

\* the rows getProposals and getProposalById select: a proposal joined with
\* its author, with its vote counts
VoteCount(proposalId, voteType) ==
  Cardinality({v \in votes : v.proposal_id = proposalId /\ v.vote_type = voteType})

JoinedProposals ==
  { [id |-> row.id, timestamp |-> row.timestamp,
     upvotes |-> VoteCount(row.id, "upvote"), downvotes |-> VoteCount(row.id, "downvote")] :
      row \in {x \in proposals : \E u \in users : u.id = x.author_id} }

Abs(n) == IF n < 0 THEN 0 - n ELSE n

\* the ORDER BY of each sortBy as a key to be listed in descending order
SortKey(row, sortBy) ==
  IF sortBy = "oldest" THEN <<0 - row.timestamp, 0, 0>>
  ELSE IF sortBy = "popular" THEN <<row.upvotes, row.timestamp, 0>>
  ELSE IF sortBy = "controversial"
  THEN <<row.upvotes + row.downvotes, 0 - Abs(row.upvotes - row.downvotes), row.timestamp>>
  ELSE <<row.timestamp, 0, 0>>

\* key a does not sort after key b
NotAfter(a, b) ==
  \/ a[1] > b[1]
  \/ a[1] = b[1] /\ a[2] > b[2]
  \/ a[1] = b[1] /\ a[2] = b[2] /\ a[3] >= b[3]

\* the orders in which the store may return the rows: every listing of all
\* rows that respects the ORDER BY (rows with equal keys come in any order)
OrderedRows(rows, sortBy) ==
  { order \in [1..Cardinality(rows) -> rows] :
      /\ \A i, j \in DOMAIN order : i # j => order[i] # order[j]
      /\ \A i, j \in DOMAIN order :
           i < j => NotAfter(SortKey(order[i], sortBy), SortKey(order[j], sortBy)) }

DEFAULT_PAGE_SIZE == 20
MAX_PAGE_SIZE == 100

\* A query parameter is the sequence of its characters; searchParams.get
\* gives null for a parameter the URL lacks, which parseInt reads as the
\* string "null".
Null == <<"n", "u", "l", "l">>

DigitValue ==
  [c \in {"0", "1", "2", "3", "4", "5", "6", "7", "8", "9"} |->
     CASE c = "0" -> 0 [] c = "1" -> 1 [] c = "2" -> 2 [] c = "3" -> 3 [] c = "4" -> 4
       [] c = "5" -> 5 [] c = "6" -> 6 [] c = "7" -> 7 [] c = "8" -> 8 [] c = "9" -> 9]

\* the digits of s from position i on, up to the first character that is
\* no digit: the number read so far and whether any digit was read
RECURSIVE ParseDigits(_, _, _, _)
ParseDigits(s, i, value, any) ==
  IF i <= Len(s) /\ s[i] \in DOMAIN DigitValue
  THEN ParseDigits(s, i + 1, 10 * value + DigitValue[s[i]], TRUE)
  ELSE [nan |-> ~any, value |-> value]

\* parseInt(s): an optional sign, then digits; NaN when no digit follows
parseInt(s) ==
  IF s # <<>> /\ s[1] = "-"
  THEN LET n == ParseDigits(s, 2, 0, FALSE) IN [nan |-> n.nan, value |-> 0 - n.value]
  ELSE IF s # <<>> /\ s[1] = "+" THEN ParseDigits(s, 2, 0, FALSE)
  ELSE ParseDigits(s, 1, 0, FALSE)

\* n || d for the result n of parseInt: d when n is NaN or 0
OrElse(n, d) == IF n.nan \/ n.value = 0 THEN d ELSE n.value

\* page, limit and offset as getProposals computes them
PageOf(r) == OrElse(parseInt(r.params.page), 1)
LimitOf(r) == Min(OrElse(parseInt(r.params.limit), DEFAULT_PAGE_SIZE), MAX_PAGE_SIZE)
OffsetOf(r) == (PageOf(r) - 1) * LimitOf(r)

\* LIMIT limit OFFSET offset of the store: a negative offset counts as 0, a
\* negative limit as no limit
LimitOffset(order, limit, offset) ==
  LET from == IF offset < 0 THEN 0 ELSE offset
      to == IF limit < 0 THEN Len(order) ELSE Min(Len(order), from + limit)
  IN SubSeq(order, from + 1, to)

getProposals(r) ==
  IF Fails(r, "SELECT proposals")
  THEN {Answer(createResponse([error |-> "Failed to retrieve proposals"], 500),
               <<"SELECT proposals">>)}
  ELSE { LET results == LimitOffset(order, LimitOf(r), OffsetOf(r)) IN
         Answer(createResponse([data |-> results,
                                pagination |-> [page |-> PageOf(r), limit |-> LimitOf(r),
                                                total |-> Len(results),
                                                hasMore |-> Len(results) = LimitOf(r)]], 200),
                <<"SELECT proposals">>) :
           order \in OrderedRows(JoinedProposals, r.params.sortBy) }

\* getProposalById: the id is what follows /api/proposals/ in the path
getProposalById(r) ==
  LET proposalId == r.path[3]
      found == {row \in JoinedProposals : row.id = proposalId}
  IN IF Falsy(proposalId)
     THEN Answer(createResponse([error |-> "Missing proposal ID"], 400), <<>>)
     ELSE IF Fails(r, "SELECT proposals")
     THEN Answer(createResponse([error |-> "Failed to retrieve proposal"], 500),
                 <<"SELECT proposals">>)
     ELSE IF found = {}
     THEN Answer(createResponse([error |-> "Proposal not found"], 404), <<"SELECT proposals">>)
     ELSE IF Falsy(r.params.userId)
     THEN Answer(createResponse([id |-> proposalId], 200), <<"SELECT proposals">>)
     ELSE IF Fails(r, "SELECT votes")
     THEN Answer(createResponse([id |-> proposalId], 200), <<"SELECT proposals", "SELECT votes">>)
     ELSE LET mine == SelectVotes(votes, proposalId, r.params.userId)
              userVote == IF mine = {} THEN NULL ELSE (CHOOSE v \in mine : TRUE).vote_type
          IN IF Fails(r, "SELECT petition_details")
             THEN Answer(createResponse([id |-> proposalId, userVote |-> userVote], 200),
                         <<"SELECT proposals", "SELECT votes", "SELECT petition_details">>)
             ELSE Answer(createResponse([id |-> proposalId, userVote |-> userVote,
                                         userPetitionVerified |->
                                           SelectPetition(petition_details, r.params.userId, proposalId) # {}],
                                        200),
                         <<"SELECT proposals", "SELECT votes", "SELECT petition_details">>)

createComment(r) ==
  LET proposalId == r.params.proposalId
      userId == r.params.userId
      id == r.env.id
  IN IF Falsy(proposalId) \/ Falsy(userId) \/ Falsy(r.params.commentText)
     THEN Answer(createResponse([error |-> "Missing required fields"], 400), <<>>)
     ELSE IF Fails(r, "SELECT proposals")
     THEN Answer(createResponse([error |-> "Error checking proposal existence"], 500),
                 <<"SELECT proposals">>)
     ELSE IF proposalId \notin ProposalIds
     THEN Answer(createResponse([error |-> "Proposal does not exist"], 404), <<"SELECT proposals">>)
     ELSE IF Fails(r, "SELECT users")
     THEN Answer(createResponse([error |-> "Error checking user existence"], 500),
                 <<"SELECT proposals", "SELECT users">>)
     ELSE IF ~ \E u \in users : u.id = userId
     THEN Answer(createResponse([error |-> "User does not exist"], 404),
                 <<"SELECT proposals", "SELECT users">>)
     ELSE IF Fails(r, "INSERT comments")
     THEN Answer(createResponse([error |-> "Failed to create comment in database"], 500),
                 <<"SELECT proposals", "SELECT users", "INSERT comments">>)
     ELSE Outcome(IF Fails(r, "SELECT users name")
                  THEN createResponse([error |-> "Failed to create comment in database"], 500)
                  ELSE createResponse([id |-> id, proposalId |-> proposalId, userId |-> userId], 201),
                  <<"SELECT proposals", "SELECT users", "INSERT comments", "SELECT users name">>,
                  users, proposals, comments \cup {id}, bucket)

validTypes == {"image/jpeg", "image/png", "image/gif", "image/webp"}
MAX_SIZE == 2 * 1024 * 1024

\* formData.get('meme') when the form has no file
NoFile == [type |-> "", size |-> 0]

\* mutant: a file of exactly the maximum size is refused
TooLargeAtLimit(file) == file.size >= MAX_SIZE

\* file.size > MAX_SIZE
TooLarge(file) == file.size > MAX_SIZE

uploadMeme(r) ==
  LET proposalId == r.params.proposalId
      file == r.params.file
      uniqueFilename == <<proposalId, r.env.now>>
      memeUrl == <<"memes", proposalId, r.env.now>>
  IN IF Falsy(proposalId)
     THEN Answer(createResponse([error |-> "Missing proposalId"], 400), <<>>)
     ELSE IF file = NoFile
     THEN Answer(createResponse([error |-> "No file uploaded or invalid file"], 400), <<>>)
     ELSE IF file.type \notin validTypes
     THEN Answer(createResponse([error |-> "Invalid file type. Only JPEG, PNG, GIF, and WebP images are allowed."],
                                400), <<>>)
     ELSE IF TooLarge(file)
     THEN Answer(createResponse([error |-> "File too large. Maximum size is 2MB."], 400), <<>>)
     ELSE IF Fails(r, "PUT bucket")
     THEN Answer(createResponse([error |-> "Failed to process meme upload"], 500), <<"PUT bucket">>)
     ELSE IF Fails(r, "UPDATE proposals")
     THEN Outcome(createResponse([error |-> "Failed to update proposal with meme URL"], 500),
                  <<"PUT bucket", "UPDATE proposals", "DELETE bucket">>,
                  users, proposals, comments,
                  IF Fails(r, "DELETE bucket") THEN bucket \cup {uniqueFilename}
                  ELSE bucket \ {uniqueFilename})
     ELSE Outcome(createResponse([success |-> TRUE, proposalId |-> proposalId, memeUrl |-> memeUrl], 200),
                  <<"PUT bucket", "UPDATE proposals">>,
                  users,
                  {IF row.id = proposalId THEN [row EXCEPT !.meme_url = memeUrl] ELSE row :
                     row \in proposals},
                  comments,
                  bucket \cup {uniqueFilename})

\* a handler threw and the catch of the API block of fetch answers
ApiCatchResponse ==
  [status |-> 500, body |-> [error |-> "Internal Server Error"],
   headers |-> [contentType |-> "application/json", cors |-> FALSE, cacheControl |-> NULL]]

\* getPetitionStats.  The statistics query is an aggregate without GROUP BY:
\* it yields one row whatever the proposal id, its proposal_text the null
\* of the scalar subquery when no proposal has the id, so !stats is false of
\* it.  The handler's catch reads proposalId, a const of the try block: it
\* throws in turn and the error reaches the catch of fetch.
getPetitionStats(r) ==
  LET proposalId == r.params.proposalId
      verified == {d \in petition_details : d.proposal_id = proposalId /\ d.verified = 1}
      stats == [verified_count |-> Cardinality({d.user_id : d \in verified}),
                total_signatures |->
                  Cardinality({v \in votes : /\ v.proposal_id = proposalId
                                             /\ v.vote_type = "upvote"
                                             /\ v.is_petition = 1}),
                proposal_text |-> IF proposalId \in ProposalIds THEN "text" ELSE NULL]
  IN IF Falsy(proposalId)
     THEN Answer(createResponse([error |-> "Missing proposalId parameter"], 400), <<>>)
     ELSE IF Fails(r, "SELECT stats")
     THEN Answer(ApiCatchResponse, <<"SELECT stats">>)
     ELSE IF Fails(r, "SELECT postcodes")
     THEN Answer(ApiCatchResponse, <<"SELECT stats", "SELECT postcodes">>)
     ELSE Answer(createResponse([proposalId |-> proposalId,
                                 proposalText |-> stats.proposal_text,
                                 verifiedSignatures |-> stats.verified_count,
                                 totalSignatures |-> stats.total_signatures,
                                 topPostcodes |-> {d.postcode : d \in verified}], 200),
                 <<"SELECT stats", "SELECT postcodes">>)

\* healthCheck: one query of the store, then tableExists for each table,
\* which answers false when its query fails
healthCheck(r) ==
  IF Fails(r, "SELECT 1")
  THEN Answer(createResponse([status |-> "error"], 500), <<"SELECT 1">>)
  ELSE IF Fails(r, "SELECT sqlite_master")
  THEN Answer(createResponse([status |-> "warning"], 200), <<"SELECT 1", "SELECT sqlite_master">>)
  ELSE Answer(createResponse([status |-> "ok"], 200), <<"SELECT 1", "SELECT sqlite_master">>)

\* ------------------------------------------------------------- fetch
\* A path is the sequence of its segments: /api/proposals is <<"api", "proposals">>.
corsHeaders == [contentType |-> NULL, cors |-> TRUE, cacheControl |-> NULL]

\* a call that passes no argument
Undefined == [kind |-> "undefined"]

\* handleOptions(request): reading request.headers of undefined throws
handleOptions(request) ==
  IF request = Undefined
  THEN [threw |-> TRUE]
  ELSE IF /\ request.params.origin
          /\ request.params.requestMethod
          /\ request.params.requestHeaders
  THEN [threw |-> FALSE, response |-> [status |-> 204, body |-> NULL, headers |-> corsHeaders]]
  ELSE [threw |-> FALSE, response |-> [status |-> 200, body |-> NULL, headers |-> corsHeaders]]

\* the static table of cache rules
getCacheControl(path) ==
  IF path = <<"api", "health">> THEN "public, max-age=3600"
  ELSE IF path = <<"api", "proposals">> THEN "public, max-age=300, stale-while-revalidate=60"
  ELSE IF path = <<"api", "comments">> THEN "public, max-age=60, stale-while-revalidate=30"
  ELSE "no-cache"

\* validateRequest(request, [param])
validateRequest(r, present) ==
  IF present THEN NoResponse
  ELSE createResponse([error |-> "Missing required parameters"], 400)

\* the paths of serveStaticAsset and the first segments of serveMedia, both
\* outside this model
StaticAssets == {<<"styles.css">>, <<"index.html">>}
MediaRoots == {"memes", "audio"}

\* the routes whose handlers run step by step (createOrUpdateVote,
\* createOrGetUser, createOrUpdateCommentVote) or are not part of this model
OtherRoutes ==
  { <<"GET", <<"api", "comments">>>>, <<"POST", <<"api", "votes">>>>,
    <<"POST", <<"api", "users">>>>, <<"POST", <<"api", "comment-votes">>>>,
    <<"GET", <<"api", "comment-votes">>>>,
    <<"GET", <<"api", "petition-svg">>>>, <<"GET", <<"api", "debug-meta">>>> }

\* fetch(request): the outcomes the request can have.  The OPTIONS branch
\* calls handleOptions() without the request; the headers object that gets
\* the value of getCacheControl(path) is handed to no handler.
fetch(r) ==
  LET path == r.path
      method == r.method
      cacheControl == getCacheControl(path)
      headers == [cacheControl |-> cacheControl]
  IN IF method = "OPTIONS"
     THEN LET options == handleOptions(Undefined) IN
          IF options.threw
          THEN {Answer(PlainResponse("Internal Server Error", 500), <<>>)}
          ELSE {Answer(options.response, <<>>)}
     ELSE IF path \in StaticAssets \/ (path[1] \in MediaRoots /\ Len(path) >= 2)
     THEN {}
     ELSE IF path[1] # "api" \/ Len(path) < 2
     THEN {Answer(PlainResponse("Not Found", 404), <<>>)}
     ELSE IF <<method, path>> \in OtherRoutes
     THEN {}
     ELSE IF path = <<"api", "proposals">> /\ method = "GET"
     THEN IF validateRequest(r, r.params.hasUserId) # NoResponse
          THEN {Answer(validateRequest(r, r.params.hasUserId), <<>>)}
          ELSE getProposals(r)
     ELSE IF path = <<"api", "proposals">> /\ method = "POST"
     THEN {createProposal(r)}
     ELSE IF path = <<"api", "comments">> /\ method = "POST"
     THEN {createComment(r)}
     ELSE IF path = <<"api", "memes">> /\ method = "POST"
     THEN {uploadMeme(r)}
     ELSE IF path = <<"api", "petition-stats">> /\ method = "GET"
     THEN {getPetitionStats(r)}
     ELSE IF path = <<"api", "health">> /\ method = "GET"
     THEN {healthCheck(r)}
     ELSE IF Len(path) = 3 /\ SubSeq(path, 1, 2) = <<"api", "proposals">> /\ method = "GET"
     THEN {getProposalById(r)}
     ELSE {Answer(PlainResponse("Not Found", 404), <<>>)}

\* what the environment chose for r can happen in this state: a new id is
\* the id of no row, and the clock does not run behind the stored timestamps
EnvPossible(r) ==
  /\ r.env.id = "" \/ r.env.id \notin ProposalIds \cup comments
  /\ \A row \in proposals : row.timestamp <= r.env.now

\* ------------------------------------------ fetch of the caching router
\* new Request(request.url, ...): the cache key is the URL, path and query
CacheKey(r) == <<r.path, r.params>>

\* caches.default.match(cacheKey)
CacheMatch(r) == {e \in edgeCache : e.key = CacheKey(r)}

\* caches.default.put(cacheKey, response): the entry of the key is replaced
CachePut(r, response) ==
  {e \in edgeCache : e.key # CacheKey(r)} \cup {[key |-> CacheKey(r), response |-> response]}

\* path.startsWith('/api/proposals') || path.startsWith('/api/comments') ||
\* path === '/api/petition-stats' || path === '/api/health', for paths
\* whose second segment is one of the names spelled here
shouldCache(path) ==
  /\ Len(path) >= 2
  /\ path[1] = "api"
  /\ \/ path[2] \in {"proposals", "comments"}
     \/ path = <<"api", "petition-stats">>
     \/ path = <<"api", "health">>

\* new Response(response.body, response) with the Cache-Control of the path
\* and CF-Cache-Status MISS
responseToCache(path, response) ==
  [response EXCEPT !.headers =
     [contentType |-> response.headers.contentType, cors |-> TRUE,
      cacheControl |-> IF path = <<"api", "health">> THEN "public, max-age=3600"
                       ELSE "public, max-age=300",
      cfCacheStatus |-> "MISS"]]

\* the cached response with CF-Cache-Status HIT
cachedResponse(response) == [response EXCEPT !.headers.cfCacheStatus = "HIT"]

\* the routes of the caching router that this model serves: the health
\* check, one proposal, the petition statistics, and the 404 of the router
\* for a path that is no route
routeCached(r) ==
  IF r.path = <<"api", "health">> THEN healthCheck(r)
  ELSE IF r.path = <<"api", "petition-stats">> /\ r.method = "GET" THEN getPetitionStats(r)
  ELSE IF Len(r.path) = 3 /\ SubSeq(r.path, 1, 2) = <<"api", "proposals">> /\ r.method = "GET"
  THEN getProposalById(r)
  ELSE Answer(createResponse([error |-> "Not found"], 404), <<>>)

\* fetch of the caching router, the request r served in slot p: a GET is
\* answered from the cache when its key has an entry; otherwise it is routed
\* and the response of a GET for a cacheable path is put under its key
CachedFetch(p, r, track) ==
  /\ EnvPossible(r)
  /\ Arrive(p, r, track)
  /\ IF r.method = "GET" /\ CacheMatch(r) # {}
     THEN /\ \E e \in CacheMatch(r) : Return(p, cachedResponse(e.response))
          /\ calls' = [calls EXCEPT ![p] = <<"caches.match">>]
          /\ UNCHANGED edgeCache
     ELSE LET out == routeCached(r) IN
          /\ Return(p, out.response)
          /\ IF r.method = "GET"
             THEN /\ calls' = [calls EXCEPT ![p] =
                                 <<"caches.match">> \o out.calls
                                   \o IF shouldCache(r.path) THEN <<"caches.put">> ELSE <<>>]
                  /\ edgeCache' = IF shouldCache(r.path)
                                  THEN CachePut(r, responseToCache(r.path, out.response))
                                  ELSE edgeCache
             ELSE /\ calls' = [calls EXCEPT ![p] = out.calls]
                  /\ UNCHANGED edgeCache
  /\ UNCHANGED <<storeVars, svgVars, swCaches>>

\* the request r is served in slot p
Fetch(p, r, track) ==
  \E out \in fetch(r) :
    /\ EnvPossible(r)
    /\ Arrive(p, r, track)
    /\ Return(p, out.response)
    /\ calls' = [calls EXCEPT ![p] = out.calls]
    /\ users' = out.users
    /\ proposals' = out.proposals
    /\ comments' = out.comments
    /\ bucket' = out.bucket
    /\ UNCHANGED <<votes, comment_votes, petition_details, svgVars, cacheVars>>

\* ----------------------------------------------------- share page (HTML)
\* A document is the sequence of its lexical pieces: "<meta", " " (white
\* space), "property=", "name=", "content=", the two quotes, "og:image",
\* "twitter:image", ":", ">", "</head" and pieces of other text.
titleChars == 60
descriptionChars == 150
Quotes == {"\"", "'"}

\* the first position from i on that holds one of the pieces cs, 0 if none
RECURSIVE FirstOf(_, _, _)
FirstOf(s, i, cs) ==
  IF i > Len(s) THEN 0 ELSE IF s[i] \in cs THEN i ELSE FirstOf(s, i + 1, cs)

\* \s+ from position i: the position after the white space, 0 if there is none
RECURSIVE AfterSpaces(_, _, _)
AfterSpaces(s, i, seen) ==
  IF i <= Len(s) /\ s[i] = " " THEN AfterSpaces(s, i + 1, TRUE)
  ELSE IF seen THEN i ELSE 0

At(s, i, c) == i >= 1 /\ i <= Len(s) /\ s[i] = c

\* /<meta\s+ATTR["']KEY(:[^"']*)?["'][^>]*>/ tried at position i: the
\* position of the closing ">" of the match, 0 if there is no match at i
MetaMatchEnd(s, i, attr, key) ==
  IF ~ At(s, i, "<meta") THEN 0
  ELSE LET a == AfterSpaces(s, i + 1, FALSE) IN
       IF a = 0 \/ ~ At(s, a, attr) THEN 0
       ELSE IF ~ (a + 1 <= Len(s) /\ s[a + 1] \in Quotes) \/ ~ At(s, a + 2, key) THEN 0
       ELSE LET k == a + 3
                q == IF At(s, k, ":") THEN FirstOf(s, k + 1, Quotes)
                     ELSE IF k <= Len(s) /\ s[k] \in Quotes THEN k ELSE 0
            IN IF q = 0 THEN 0 ELSE FirstOf(s, q + 1, {">"})

\* /<meta\s+name=["']twitter:image:src["'][^>]*>/ tried at position i
SrcMatchEnd(s, i) ==
  IF ~ At(s, i, "<meta") THEN 0
  ELSE LET a == AfterSpaces(s, i + 1, FALSE) IN
       IF a = 0 \/ ~ At(s, a, "name=") THEN 0
       ELSE IF /\ a + 5 <= Len(s)
               /\ s[a + 1] \in Quotes
               /\ s[a + 2] = "twitter:image" /\ s[a + 3] = ":" /\ s[a + 4] = "src"
               /\ s[a + 5] \in Quotes
            THEN FirstOf(s, a + 6, {">"})
            ELSE 0

MatchEnd(s, i, pattern) ==
  IF pattern = "og" THEN MetaMatchEnd(s, i, "property=", "og:image")
  ELSE IF pattern = "twitter" THEN MetaMatchEnd(s, i, "name=", "twitter:image")
  ELSE SrcMatchEnd(s, i)

\* html.replace(/pattern/g, ''), scanning from position i
RECURSIVE RemoveFrom(_, _, _)
RemoveFrom(s, i, pattern) ==
  IF i > Len(s) THEN <<>>
  ELSE LET e == MatchEnd(s, i, pattern) IN
       IF e > 0 THEN RemoveFrom(s, e + 1, pattern)
       ELSE <<s[i]>> \o RemoveFrom(s, i + 1, pattern)

\* the three replacements, in the order of the source
StripImageTags(html) ==
  RemoveFrom(RemoveFrom(RemoveFrom(html, 1, "og"), 1, "twitter"), 1, "src")

\* mutant: the last closing head marker instead of the first
RECURSIVE HeadEndIndexLast(_, _)
HeadEndIndexLast(s, i) ==
  LET later == IF i > Len(s) THEN 0 ELSE HeadEndIndexLast(s, i + 1) IN
  IF later > 0 THEN later
  ELSE IF At(s, i, "</head") /\ At(s, i + 1, ">") THEN i ELSE 0

\* s.indexOf('</head>') from position i: 0 stands for -1
RECURSIVE HeadEndIndex(_, _)
HeadEndIndex(s, i) ==
  IF i > Len(s) THEN 0
  ELSE IF At(s, i, "</head") /\ At(s, i + 1, ">") THEN i
  ELSE HeadEndIndex(s, i + 1)

\* text.substring(0, n)
Substring0(text, n) == SubSeq(text, 1, Min(n, Len(text)))

MetaTag(attr, key, content) ==
  <<"<meta", " ", attr, "\"">> \o key \o <<"\"", " ", "content=", "\"">> \o content \o <<"\"", ">">>

\* the block of replacement tags
customMetaTags(proposal, fullProposalUrl, shareImageUrl, now) ==
  LET title == <<"RADICAL Petition: ">> \o Substring0(proposal.text, titleChars)
      description == Substring0(proposal.text, descriptionChars)
  IN <<"<!--", "RADICAL SOCIAL SHARING META TAGS", ToString(now), "-->">>
     \o MetaTag("name=", <<"title">>, title)
     \o MetaTag("name=", <<"description">>, description)
     \o MetaTag("property=", <<"og:type">>, <<"website">>)
     \o MetaTag("property=", <<"og:url">>, fullProposalUrl)
     \o MetaTag("property=", <<"og:title">>, title)
     \o MetaTag("property=", <<"og:description">>, description)
     \o MetaTag("property=", <<"og:image">>, shareImageUrl)
     \o MetaTag("property=", <<"og:image", ":", "width">>, <<"1200">>)
     \o MetaTag("property=", <<"og:image", ":", "height">>, <<"630">>)
     \o MetaTag("property=", <<"og:image", ":", "alt">>, title)
     \o MetaTag("name=", <<"twitter:card">>, <<"summary_large_image">>)
     \o MetaTag("name=", <<"twitter:url">>, fullProposalUrl)
     \o MetaTag("name=", <<"twitter:title">>, <<"RADICAL Petition">>)
     \o MetaTag("name=", <<"twitter:description">>, description)
     \o MetaTag("name=", <<"twitter:image">>, shareImageUrl)
     \o MetaTag("name=", <<"twitter:image", ":", "alt">>, title)

\* the proposal the page is customised for: the test data, or the row read
\* from the store (NoRow when there is none)
PageProposal(in) ==
  IF in.testMeta
  THEN [id |-> "test_proposal",
        text |-> <<"This is a test proposal for meta tags">>]
  ELSE in.row

PageBlock(in) ==
  customMetaTags(PageProposal(in),
                 <<"https://", in.hostname, "/?proposal=", in.proposalId>>,
                 <<"https://", in.hostname, "/api/petition-svg?id=",
                   IF in.testMeta THEN "test_proposal" ELSE in.proposalId>>,
                 in.now)

\* the response: the page fetched from the origin when no proposal is
\* found, the stripped page when it has no closing head marker, otherwise
\* the stripped page with the block before the marker
serveCustomizedHtml(in) ==
  IF PageProposal(in) = NoRow
  THEN [body |-> in.html, customMeta |-> "none"]
  ELSE LET modifiedHtml == StripImageTags(in.html)
           headEndIndex == HeadEndIndex(modifiedHtml, 1)
       IN IF headEndIndex = 0
          THEN [body |-> modifiedHtml, customMeta |-> "none"]
          ELSE [body |-> SubSeq(modifiedHtml, 1, headEndIndex - 1) \o PageBlock(in)
                           \o SubSeq(modifiedHtml, headEndIndex, Len(modifiedHtml)),
                customMeta |-> IF in.testMeta THEN "test" ELSE "proposal"]

\* ------------------------------------------------------ specifications
\* the store before any request of the run: one user, one proposal, one comment
Init ==
  /\ users = {[id |-> "u1", name |-> "n1"]}
  /\ proposals = InitialProposals
  /\ comments = {"c1"}
  /\ votes = {}
  /\ comment_votes = {}
  /\ petition_details = {}
  /\ bucket = {}
  /\ edgeCache = {}
  /\ swCaches = NoCaches
  /\ pc = [p \in Procs |-> "idle"]
  /\ req = [p \in Procs |-> NoRequest]
  /\ existingVote = [p \in Procs |-> NoRow]
  /\ resp = [p \in Procs |-> NoResponse]
  /\ calls = [p \in Procs |-> <<>>]
  /\ pre = [p \in Procs |-> [votes |-> {}, comment_votes |-> {}, petition_details |-> {}]]
  /\ last = NoLast
  /\ svgIn = <<>>
  /\ svgOut = <<>>

\* petition payloads of a vote request: (isPetition, petitionDetails)
Payloads ==
  {<<FALSE, NoDetails>>, <<TRUE, NoDetails>>, <<FALSE, DetailsA>>}
    \cup {<<TRUE, d>> : d \in CompleteDetails \cup IncompleteDetails}

\* a request that names only its three required fields
Plain == <<FALSE, NoDetails>>

BadVoteRequests ==
  {VoteRequest("p1", "u1", t, FALSE, NoDetails) : t \in {"sideways", ""}}
  \cup {VoteRequest("", "u1", "upvote", FALSE, NoDetails),
        VoteRequest("p1", "", "upvote", FALSE, NoDetails)}
  \cup {VoteRequest("p2", "u1", t, pl[1], pl[2]) :
          t \in VoteTypes, pl \in {Plain, <<TRUE, DetailsA>>}}

VoteRequests ==
  {VoteRequest("p1", "u1", t, pl[1], pl[2]) : t \in VoteTypes, pl \in Payloads}
  \cup {VoteRequest("p1", "u2", t, pl[1], pl[2]) :
          t \in VoteTypes, pl \in {Plain, <<TRUE, DetailsA>>}}
  \cup BadVoteRequests

BadCommentVoteRequests ==
  {CommentVoteRequest("c1", "u1", t) : t \in {"sideways", ""}}
  \cup {CommentVoteRequest("", "u1", "upvote"), CommentVoteRequest("c1", "", "upvote")}
  \cup {CommentVoteRequest("c2", "u1", t) : t \in VoteTypes}

CommentVoteRequests ==
  {CommentVoteRequest("c1", u, t) : u \in UserIds, t \in VoteTypes}
  \cup BadCommentVoteRequests

UserRequests ==
  {UserRequest(u, "n1") : u \in UserIds} \cup {UserRequest("", "n1"), UserRequest("u2", "")}

\* the steps of a handler in flight in slot p
Step(p) ==
  \/ VoteLookup(p)
  \/ VoteWrite(p)
  \/ PetitionCheck(p)
  \/ PetitionWrite(p)
  \/ CommentVoteLookup(p)
  \/ CommentVoteWrite(p)
  \/ UserLookup(p)
  \/ UserWrite(p)

\* requests run one at a time: slot 1 takes the next request when the
\* previous one has returned
Next ==
  \/ \E r \in VoteRequests : VoteArrive(1, r, "pre")
  \/ \E r \in CommentVoteRequests : CommentVoteArrive(1, r, "pre")
  \/ \E r \in UserRequests : UserArrive(1, r, "pre")
  \/ Step(1)

Spec == Init /\ [][Next]_vars

\* requests run one at a time, each remembering the one before it: the vote
\* requests of both users on the proposal and on the comment, with and
\* without a petition payload, a create-user request and a rejected request
ToggleVoteRequests ==
  {VoteRequest("p1", u, t, FALSE, NoDetails) : u \in UserIds, t \in VoteTypes}
  \cup {VoteRequest("p1", "u1", "upvote", TRUE, d) : d \in {DetailsA, Lacking("dob")}}
  \cup {VoteRequest("p1", "u1", "sideways", FALSE, NoDetails)}

ToggleCommentVoteRequests ==
  {CommentVoteRequest("c1", u, t) : u \in UserIds, t \in VoteTypes}
  \cup {CommentVoteRequest("c2", "u1", "upvote")}

NextToggle ==
  \/ \E r \in ToggleVoteRequests : VoteArrive(1, r, "last")
  \/ \E r \in ToggleCommentVoteRequests : CommentVoteArrive(1, r, "last")
  \/ UserArrive(1, UserRequest("u2", "n1"), "last")
  \/ Step(1)

SpecToggle == Init /\ [][NextToggle]_vars

\* requests of one user for one proposal or for one comment, interleaved at
\* the granularity of single store calls: any slot takes a request when it
\* is free, and any handler in flight takes its next step.  The two handlers
\* write different tables, so a run interleaves requests of one of them.
ConcVoteRequests ==
  {VoteRequest("p1", "u1", t, FALSE, NoDetails) : t \in VoteTypes}

ConcCommentVoteRequests ==
  {CommentVoteRequest("c1", "u1", t) : t \in VoteTypes}

OnlyKind(k) == \A q \in Procs : req[q].kind \in {"none", k}

NextConc ==
  \E p \in Procs :
    \/ OnlyKind("vote") /\ \E r \in ConcVoteRequests : VoteArrive(p, r, "none")
    \/ OnlyKind("comment_vote")
         /\ \E r \in ConcCommentVoteRequests : CommentVoteArrive(p, r, "none")
    \/ VoteLookup(p)
    \/ VoteWrite(p)
    \/ CommentVoteLookup(p)
    \/ CommentVoteWrite(p)

SpecConc == Init /\ [][NextConc]_vars

\* the word wrap on its own: every text of spaces and letters up to
\* MaxTextLen characters, at the width of the share image and at widths
\* narrow enough for short texts to wrap
WrapWidths == {44, 66, 960}
WrapTexts == UNION {[1..n -> {"a", " "}] : n \in 0..MaxTextLen}

InitWrap ==
  /\ users = {[id |-> "u1", name |-> "n1"]}
  /\ proposals = InitialProposals
  /\ comments = {"c1"}
  /\ votes = {}
  /\ comment_votes = {}
  /\ petition_details = {}
  /\ bucket = {}
  /\ edgeCache = {}
  /\ swCaches = NoCaches
  /\ pc = [p \in Procs |-> "idle"]
  /\ req = [p \in Procs |-> NoRequest]
  /\ existingVote = [p \in Procs |-> NoRow]
  /\ resp = [p \in Procs |-> NoResponse]
  /\ calls = [p \in Procs |-> <<>>]
  /\ pre = [p \in Procs |-> [votes |-> {}, comment_votes |-> {}, petition_details |-> {}]]
  /\ last = NoLast
  /\ svgIn \in [text : WrapTexts, width : WrapWidths]
  /\ svgOut = [rendered |-> FALSE, lines |-> <<>>]

RenderLines ==
  /\ ~ svgOut.rendered
  /\ svgOut' = [rendered |-> TRUE,
                lines |-> generateSVGTextLines(svgIn.text, 120, 220, svgIn.width)]
  /\ UNCHANGED <<storeVars, procVars, svgIn, cacheVars>>

SpecWrap == InitWrap /\ [][RenderLines]_vars

\* the share image on its own: proposals whose text, id and author name are
\* short strings over a letter, the space and the five characters of
\* escapeHTML, rendered at either of two clock readings
MarkupChars == {"a", " ", "&", "<", ">", "\"", "'"}
MarkupTexts == UNION {[1..n -> MarkupChars] : n \in 0..MaxMarkupLen}
MarkupIds ==
  UNION {[1..n -> {"p", "<", "&"}] : n \in 0..2}
    \cup {<<"p", "r", "o", "p", "_", "1", "2">>, <<"p", "\"", "'", ">", "_", "1", "2">>}
MarkupNames == {<<"n">>, <<"<", "n", ">">>}
SvgProposals ==
  [id : MarkupIds, text : MarkupTexts, timestamp : {0, TicksPerDay},
   author_name : MarkupNames, upvotes : 0..1, downvotes : 0..1]
ClockReadings == {TicksPerDay, 2 * TicksPerDay}

InitSVG ==
  /\ users = {[id |-> "u1", name |-> "n1"]}
  /\ proposals = InitialProposals
  /\ comments = {"c1"}
  /\ votes = {}
  /\ comment_votes = {}
  /\ petition_details = {}
  /\ bucket = {}
  /\ edgeCache = {}
  /\ swCaches = NoCaches
  /\ pc = [p \in Procs |-> "idle"]
  /\ req = [p \in Procs |-> NoRequest]
  /\ existingVote = [p \in Procs |-> NoRow]
  /\ resp = [p \in Procs |-> NoResponse]
  /\ calls = [p \in Procs |-> <<>>]
  /\ pre = [p \in Procs |-> [votes |-> {}, comment_votes |-> {}, petition_details |-> {}]]
  /\ last = NoLast
  /\ svgIn \in [proposal : SvgProposals, now : ClockReadings]
  /\ svgOut = [rendered |-> FALSE, parts |-> <<>>]

RenderSVG ==
  /\ ~ svgOut.rendered
  /\ svgOut' = [rendered |-> TRUE, parts |-> generatePetitionSVG(svgIn.proposal, svgIn.now)]
  /\ UNCHANGED <<storeVars, procVars, svgIn, cacheVars>>

SpecSVG == InitSVG /\ [][RenderSVG]_vars

\* the share image rendered twice from one proposal record, at two clock
\* readings
ClockProposals ==
  {p \in SvgProposals : Len(p.text) <= 1 /\ p.author_name = <<"n">>}

InitClock ==
  /\ users = {[id |-> "u1", name |-> "n1"]}
  /\ proposals = InitialProposals
  /\ comments = {"c1"}
  /\ votes = {}
  /\ comment_votes = {}
  /\ petition_details = {}
  /\ bucket = {}
  /\ edgeCache = {}
  /\ swCaches = NoCaches
  /\ pc = [p \in Procs |-> "idle"]
  /\ req = [p \in Procs |-> NoRequest]
  /\ existingVote = [p \in Procs |-> NoRow]
  /\ resp = [p \in Procs |-> NoResponse]
  /\ calls = [p \in Procs |-> <<>>]
  /\ pre = [p \in Procs |-> [votes |-> {}, comment_votes |-> {}, petition_details |-> {}]]
  /\ last = NoLast
  /\ svgIn \in [proposal : ClockProposals, now : ClockReadings, later : ClockReadings]
  /\ svgIn.now <= svgIn.later
  /\ svgOut = [calls |-> 0, first |-> <<>>, second |-> <<>>]

RenderFirst ==
  /\ svgOut.calls = 0
  /\ svgOut' = [svgOut EXCEPT !.calls = 1,
                              !.first = generatePetitionSVG(svgIn.proposal, svgIn.now)]
  /\ UNCHANGED <<storeVars, procVars, svgIn, cacheVars>>

RenderSecond ==
  /\ svgOut.calls = 1
  /\ svgOut' = [svgOut EXCEPT !.calls = 2,
                              !.second = generatePetitionSVG(svgIn.proposal, svgIn.later)]
  /\ UNCHANGED <<storeVars, procVars, svgIn, cacheVars>>

NextClock == RenderFirst \/ RenderSecond

SpecClock == InitClock /\ [][NextClock]_vars

\* the share page on its own: pages made of up to MaxPageParts elements
\* (image tags in either attribute order, other tags, text, closing head
\* markers), customised for a stored proposal, for the test proposal or for
\* an id that has no row
PageElements ==
  { MetaTag("property=", <<"og:image">>, <<"u">>),
    MetaTag("property=", <<"og:image", ":", "width">>, <<"9">>),
    <<"<meta", " ", "content=", "\"", "u", "\"", " ", "property=", "\"", "og:image", "\"", ">">>,
    <<"<meta", " ", " ", "name=", "'", "twitter:image", "'", " ", "content=", "'", "u", "'", ">">>,
    MetaTag("name=", <<"twitter:image", ":", "src">>, <<"u">>),
    <<"<meta", " ", "content=", "\"", "u", "\"", " ", "name=", "\"", "twitter:image", "\"", ">">>,
    MetaTag("property=", <<"og:title">>, <<"t">>),
    <<"w">>,
    <<"</head", ">">> }

RECURSIVE Flatten(_)
Flatten(parts) == IF parts = <<>> THEN <<>> ELSE Head(parts) \o Flatten(Tail(parts))

Pages == {Flatten(parts) : parts \in UNION {[1..n -> PageElements] : n \in 0..MaxPageParts}}

PageTextLengths == {1, titleChars, titleChars + 1, descriptionChars + 1}
PageRows == {[id |-> "p1", text |-> [i \in 1..n |-> "a"]] : n \in PageTextLengths}
PageInputs ==
  { in \in [proposalId : {"p1"}, testMeta : BOOLEAN, row : PageRows \cup {NoRow},
            hostname : {"h"}, html : Pages, now : {1}] :
      in.testMeta => in.row = NoRow }

InitPage ==
  /\ users = {[id |-> "u1", name |-> "n1"]}
  /\ proposals = InitialProposals
  /\ comments = {"c1"}
  /\ votes = {}
  /\ comment_votes = {}
  /\ petition_details = {}
  /\ bucket = {}
  /\ edgeCache = {}
  /\ swCaches = NoCaches
  /\ pc = [p \in Procs |-> "idle"]
  /\ req = [p \in Procs |-> NoRequest]
  /\ existingVote = [p \in Procs |-> NoRow]
  /\ resp = [p \in Procs |-> NoResponse]
  /\ calls = [p \in Procs |-> <<>>]
  /\ pre = [p \in Procs |-> [votes |-> {}, comment_votes |-> {}, petition_details |-> {}]]
  /\ last = NoLast
  /\ svgIn \in PageInputs
  /\ svgOut = [rendered |-> FALSE]

RenderPage ==
  /\ ~ svgOut.rendered
  /\ svgOut' = [rendered |-> TRUE, response |-> serveCustomizedHtml(svgIn)]
  /\ UNCHANGED <<storeVars, procVars, svgIn, cacheVars>>

SpecPage == InitPage /\ [][RenderPage]_vars

\* the board: user u1 posts a second proposal, votes on the two proposals
\* and lists them under each sortBy, one request at a time
ClockTimes == 1..MaxTime
NoParams == [none |-> TRUE]

BoardRequests ==
  { Http("POST", <<"api", "proposals">>, [text |-> "t", authorId |-> "u1"], Env("p2", now, {})) :
      now \in ClockTimes }
  \cup
  { Http("GET", <<"api", "proposals">>, [hasUserId |-> has, sortBy |-> sortBy, page |-> Null, limit |-> Null], Env("", MaxTime, {})) :
      has \in BOOLEAN, sortBy \in {"newest", "oldest", "popular", "controversial", "other"} }

NextBoard ==
  \/ \E r \in BoardRequests : Fetch(1, r, "none")
  \/ \E proposalId \in {"p1", "p2"}, voteType \in VoteTypes :
       VoteArrive(1, VoteRequest(proposalId, "u1", voteType, FALSE, NoDetails), "none")
  \/ VoteLookup(1)
  \/ VoteWrite(1)

SpecBoard == Init /\ [][NextBoard]_vars

\* meme uploads: files of each type around the size limit, with and without
\* a proposal id
MemeFiles ==
  {NoFile} \cup [type : validTypes \cup {"image/svg+xml"},
                 size : {1, MAX_SIZE - 1, MAX_SIZE, MAX_SIZE + 1, 3 * 1024 * 1024}]

MemeUploads ==
  { Http("POST", <<"api", "memes">>, [proposalId |-> proposalId, file |-> file], Env("", now, fails)) :
      proposalId \in {"", "p1"}, file \in MemeFiles, now \in ClockTimes, fails \in {{}} }

NextMemes == \E r \in MemeUploads : Fetch(1, r, "none")

SpecMemes == Init /\ [][NextMemes]_vars

\* the router: requests of every method and route of the model, the votes
\* among them served step by step
RouterRequests ==
  { Http("OPTIONS", path, params, Env("", MaxTime, {})) :
      path \in { <<"api", "proposals">>, <<"api", "proposals", "p1">>, <<"api", "comments">>,
                 <<"api", "votes">>, <<"api", "health">>, <<"api", "nowhere">>, <<"robots.txt">> },
      params \in [origin : BOOLEAN, requestMethod : {TRUE}, requestHeaders : BOOLEAN] }
  \cup
  { Http("GET", <<"api", "proposals">>, [hasUserId |-> has, sortBy |-> "newest", page |-> Null, limit |-> Null], Env("", MaxTime, {})) :
      has \in BOOLEAN }
  \cup { Http("GET", <<"api", "proposals", id>>, [userId |-> "u1"], Env("", MaxTime, {})) :
           id \in {"p1", "p9"} }
  \cup { Http("GET", <<"api", "health">>, NoParams, Env("", MaxTime, fails)) :
           fails \in {{}, {"SELECT 1"}} }
  \cup { Http("GET", path, NoParams, Env("", MaxTime, {})) :
           path \in {<<"api", "nowhere">>, <<"robots.txt">>} }
  \cup
  { Http("POST", <<"api", "proposals">>, [text |-> text, authorId |-> "u1"], Env("p2", MaxTime, {})) :
      text \in {"", "t"} }
  \cup { Http("POST", <<"api", "comments">>,
              [proposalId |-> "p1", userId |-> "u1", commentText |-> text], Env("c2", MaxTime, {})) :
           text \in {"", "t"} }

NextRouter ==
  \/ \E r \in RouterRequests : Fetch(1, r, "none")
  \/ \E voteType \in VoteTypes :
       VoteArrive(1, VoteRequest("p1", "u1", voteType, FALSE, NoDetails), "none")
  \/ VoteLookup(1)
  \/ VoteWrite(1)

SpecRouter == Init /\ [][NextRouter]_vars

\* requests that name users, proposals and comments, some stored (u1, p1,
\* c1), some not (u2 until it is created, p9, c9), one request at a time
EntityRequests ==
  { Http("POST", <<"api", "proposals">>, [text |-> "t", authorId |-> u], Env("p2", MaxTime, {})) :
      u \in UserIds }
  \cup { Http("POST", <<"api", "comments">>,
              [proposalId |-> id, userId |-> u, commentText |-> "t"], Env("c2", MaxTime, {})) :
           id \in {"p1", "p9"}, u \in UserIds }
  \cup
  { Http("GET", <<"api", "proposals", id>>, [userId |-> "u1"], Env("", MaxTime, {})) :
      id \in {"p1", "p9"} }

NextEntities ==
  \/ \E r \in EntityRequests : Fetch(1, r, "none")
  \/ \E id \in {"p1", "p9"}, u \in UserIds :
       VoteArrive(1, VoteRequest(id, u, "upvote", FALSE, NoDetails), "none")
  \/ \E id \in {"c1", "c9"}, u \in UserIds :
       CommentVoteArrive(1, CommentVoteRequest(id, u, "upvote"), "none")
  \/ \E id \in UserIds, name \in {"n1", "n2"} : UserArrive(1, UserRequest(id, name), "none")
  \/ VoteLookup(1)
  \/ VoteWrite(1)
  \/ CommentVoteLookup(1)
  \/ CommentVoteWrite(1)
  \/ UserLookup(1)
  \/ UserWrite(1)

SpecEntities == Init /\ [][NextEntities]_vars

\* failing store and bucket calls: each request with each set of its calls
\* failing, one request at a time
FaultyRequests ==
  { Http("POST", <<"api", "proposals">>, [text |-> "t", authorId |-> "u1"], Env("p2", MaxTime, fails)) :
      fails \in SUBSET {"SELECT users", "INSERT proposals", "PUT bucket", "UPDATE proposals"} }
  \cup { Http("GET", <<"api", "proposals">>, [hasUserId |-> TRUE, sortBy |-> "newest", page |-> Null, limit |-> Null],
              Env("", MaxTime, fails)) :
           fails \in SUBSET {"SELECT proposals"} }
  \cup { Http("GET", <<"api", "proposals", "p1">>, [userId |-> "u1"], Env("", MaxTime, fails)) :
           fails \in SUBSET {"SELECT proposals", "SELECT votes", "SELECT petition_details"} }
  \cup { Http("POST", <<"api", "comments">>,
              [proposalId |-> "p1", userId |-> "u1", commentText |-> "t"], Env("c2", MaxTime, fails)) :
           fails \in SUBSET {"SELECT proposals", "SELECT users", "INSERT comments", "SELECT users name"} }
  \cup { Http("POST", <<"api", "memes">>,
              [proposalId |-> "p1", file |-> [type |-> "image/png", size |-> 1]],
              Env("", MaxTime, fails)) :
           fails \in SUBSET {"PUT bucket", "UPDATE proposals", "DELETE bucket"} }
  \cup { Http("GET", <<"api", "health">>, NoParams, Env("", MaxTime, fails)) :
           fails \in SUBSET {"SELECT 1", "SELECT sqlite_master"} }

NextFaults == \E r \in FaultyRequests : Fetch(1, r, "none")

SpecFaults == Init /\ [][NextFaults]_vars

\* petitions and their statistics: the petition upvotes, plain votes and
\* statistics requests of u1, for the stored proposal and for an id without
\* a row, one request at a time
NextStats ==
  \/ \E id \in {"p1", "p9", ""} :
       Fetch(1, Http("GET", <<"api", "petition-stats">>, [proposalId |-> id], Env("", MaxTime, {})), "none")
  \/ \E voteType \in VoteTypes, pl \in {Plain, <<TRUE, DetailsA>>, <<TRUE, DetailsB>>} :
       VoteArrive(1, VoteRequest("p1", "u1", voteType, pl[1], pl[2]), "pre")
  \/ VoteLookup(1)
  \/ VoteWrite(1)
  \/ PetitionCheck(1)
  \/ PetitionWrite(1)

SpecStats == Init /\ [][NextStats]_vars

\* upvotes and downvotes of one user on one proposal, all sent with
\* isPetition true, interleaved at the granularity of single store calls
NextRace ==
  \E p \in Procs :
    \/ \E voteType \in VoteTypes :
         VoteArrive(p, VoteRequest("p1", "u1", voteType, TRUE, NoDetails), "none")
    \/ VoteLookup(p)
    \/ VoteWrite(p)

SpecRace == Init /\ [][NextRace]_vars

\* the caching router: the health check with and without a failing store,
\* a stored and a missing proposal, the statistics of p1, a path that is no
\* route, and a POST, one request at a time
NextEdge ==
  \/ \E fails \in {{}, {"SELECT 1"}}, method \in {"GET", "POST"} :
       CachedFetch(1, Http(method, <<"api", "health">>, NoParams, Env("", MaxTime, fails)), "none")
  \/ \E id \in {"p1", "p9"}, fails \in {{}, {"SELECT proposals"}} :
       CachedFetch(1, Http("GET", <<"api", "proposals", id>>, [userId |-> "u1"],
                           Env("", MaxTime, fails)), "none")
  \/ \E id \in {"p1", "p9"} :
       CachedFetch(1, Http("GET", <<"api", "petition-stats">>, [proposalId |-> id],
                           Env("", MaxTime, {})), "none")
  \/ \E path \in {<<"api", "comments", "latest">>, <<"api", "nowhere">>} :
       CachedFetch(1, Http("GET", path, NoParams, Env("", MaxTime, {})), "none")

SpecEdge == Init /\ [][NextEdge]_vars

\* the service worker: install, activate and fetch events in any order, the
\* CacheStorage holding a cache of an earlier version when the worker starts
SwUrls ==
  { Url("same", <<>>), Url("same", <<"app.js">>), Url("same", <<"api", "proposals">>),
    Url("same", <<"old.css">>), Url("other", <<"css2">>) }

InitSw ==
  /\ users = {[id |-> "u1", name |-> "n1"]}
  /\ proposals = InitialProposals
  /\ comments = {"c1"}
  /\ votes = {}
  /\ comment_votes = {}
  /\ petition_details = {}
  /\ bucket = {}
  /\ edgeCache = {}
  /\ swCaches = {[cache |-> "radical-cache-v0", url |-> Url("same", <<"old.css">>),
                  status |-> 200, type |-> "basic", by |-> "earlier"]}
  /\ pc = [p \in Procs |-> "idle"]
  /\ req = [p \in Procs |-> NoRequest]
  /\ existingVote = [p \in Procs |-> NoRow]
  /\ resp = [p \in Procs |-> NoResponse]
  /\ calls = [p \in Procs |-> <<>>]
  /\ pre = [p \in Procs |-> [votes |-> {}, comment_votes |-> {}, petition_details |-> {}]]
  /\ last = NoLast
  /\ svgIn = <<>>
  /\ svgOut = <<>>

NextSw ==
  \/ SwInstall
  \/ SwActivate
  \/ \E method \in {"GET", "POST"}, url \in SwUrls : SwFetch(1, SwRequest(method, url))

SpecSw == InitSw /\ [][NextSw]_vars

\* pages of the board: a second proposal is posted and the proposals are
\* listed with page and limit absent, zero, negative, non-numeric, small
\* and above MAX_PAGE_SIZE
PageParams == {Null, <<"0">>, <<"-", "1">>, <<"1">>, <<"2">>, <<"x">>, <<"1", "0", "1">>}

PageRequests ==
  { Http("POST", <<"api", "proposals">>, [text |-> "t", authorId |-> "u1"], Env("p2", MaxTime, {})) }
  \cup
  { Http("GET", <<"api", "proposals">>,
         [hasUserId |-> TRUE, sortBy |-> sortBy, page |-> page, limit |-> limit],
         Env("", MaxTime, {})) :
      page \in PageParams, limit \in PageParams, sortBy \in {"newest", "oldest"} }

NextPages == \E r \in PageRequests : Fetch(1, r, "none")

SpecPages == Init /\ [][NextPages]_vars

\* uploads of a valid meme for a proposal that exists and for one that does
\* not, each downstream call failing or not
OrphanUploads ==
  { Http("POST", <<"api", "memes">>,
         [proposalId |-> proposalId, file |-> [type |-> "image/png", size |-> 1]],
         Env("", now, fails)) :
      proposalId \in {"p1", "p9"}, now \in ClockTimes,
      fails \in SUBSET {"PUT bucket", "UPDATE proposals", "DELETE bucket"} }

NextOrphans == \E r \in OrphanUploads : Fetch(1, r, "none")

SpecOrphans == Init /\ [][NextOrphans]_vars

\* ------------------------------------------------------------ properties
Done(p) == pc[p] = "done"

UserExists(id) == \E u \in users : u.id = id

\* a proposal vote request that passes validation and both existence checks
AcceptedVote(r) ==
  /\ r.kind = "vote"
  /\ r.voteType \in VoteTypes
  /\ UserExists(r.userId)
  /\ r.proposalId \in ProposalIds

\* a comment vote request that passes validation and both existence checks
AcceptedCommentVote(r) ==
  /\ r.kind = "comment_vote"
  /\ r.voteType \in VoteTypes
  /\ UserExists(r.userId)
  /\ r.commentId \in comments

\* the pair of the request held an upvote when the request arrived
HeldUpvote(p) == \E v \in PairRows(pre[p], req[p]) : v.vote_type = "upvote"

\* petitionDetails carries all five fields
AllFiveFields(d) == d # NoDetails /\ \A f \in DetailFields : d[f] # ""

\* a vote request (proposal or comment) that passes validation and the
\* existence checks and whose petition part, if any, is not rejected
ToggleRequest(r) ==
  \/ AcceptedCommentVote(r)
  \/ /\ AcceptedVote(r)
     /\ ~ (r.voteType = "upvote" /\ r.isPetition /\ r.petitionDetails # NoDetails
           /\ ~ AllFiveFields(r.petitionDetails))

\* the table the request's kind of vote lives in, now and on arrival
VoteTable(r) == IF r.kind = "vote" THEN votes ELSE comment_votes
VoteTableBefore(p) ==
  IF req[p].kind = "vote" THEN pre[p].votes ELSE pre[p].comment_votes

(* C1: for an existing user and subject, a vote request (proposal or
   comment, upvote or downvote) that finds no vote row of its pair inserts
   exactly one row and is answered 200 with its voteType; the identical
   request repeated right after it deletes that row, is answered 200 with
   voteType null, and leaves the pair without a vote row. *)
VoteThenSameVoteRemoves ==
  \A p \in Procs :
    (Done(p) /\ ToggleRequest(req[p])) =>
      LET r == req[p]
          rows == PairRows(Snapshot, r) IN
      /\ PairRows(pre[p], r) = {} =>
           /\ resp[p].status = 200
           /\ resp[p].body.voteType = r.voteType
           /\ Cardinality(rows) = 1
           /\ \A v \in rows : v.vote_type = r.voteType
           /\ VoteTable(r) = VoteTableBefore(p) \cup rows
      /\ (last.req = r /\ last.fresh) =>
           /\ resp[p].status = 200
           /\ resp[p].body.voteType = NULL
           /\ rows = {}
           /\ Cardinality(PairRows(pre[p], r)) = 1
           /\ VoteTable(r) = VoteTableBefore(p) \ PairRows(pre[p], r)

\* the second of two identical upvotes on a fresh pair has been answered,
\* while the other user's vote is still there
VoteThenSameVoteRemovesWitness ==
  /\ Done(1)
  /\ req[1] = VoteRequest("p1", "u1", "upvote", FALSE, NoDetails)
  /\ last.req = req[1]
  /\ last.fresh
  /\ resp[1].status = 200
  /\ votes # {}

(* C2: for an existing user and subject, and from any store state reached
   by requests run one at a time, a vote of one type followed directly by a
   vote of the opposite type for the same pair leaves exactly one vote row
   for the pair, whose vote_type is that of the second request. *)
OppositeVoteReplaces ==
  \A p \in Procs :
    (/\ Done(p)
     /\ AcceptedVote(req[p]) \/ AcceptedCommentVote(req[p])
     /\ last.req.kind = req[p].kind
     /\ [last.req EXCEPT !.voteType = req[p].voteType] = req[p]
     /\ last.req.voteType \in VoteTypes
     /\ last.req.voteType # req[p].voteType) =>
      LET rows == PairRows(Snapshot, req[p]) IN
      /\ Cardinality(rows) = 1
      /\ \A v \in rows : v.vote_type = req[p].voteType

\* the pair held a downvote; an upvote and then a downvote were cast, the
\* second changing the row in place
OppositeVoteReplacesWitness ==
  /\ Done(1)
  /\ req[1] = VoteRequest("p1", "u1", "downvote", FALSE, NoDetails)
  /\ last.req = VoteRequest("p1", "u1", "upvote", FALSE, NoDetails)
  /\ ~ last.fresh
  /\ calls[1][4] = "UPDATE votes"
  /\ Cardinality(votes) = 2

(* C3: when requests run one at a time, votes has at most one row per
   (proposal, user), comment_votes at most one row per (comment, user) and
   petition_details at most one row per (proposal, user), in every state. *)
AtMostOneRowPerPair ==
  /\ \A a, b \in votes :
       (a.proposal_id = b.proposal_id /\ a.user_id = b.user_id) => a = b
  /\ \A a, b \in comment_votes :
       (a.comment_id = b.comment_id /\ a.user_id = b.user_id) => a = b
  /\ \A a, b \in petition_details :
       (a.proposal_id = b.proposal_id /\ a.user_id = b.user_id) => a = b

\* both users hold a row in each of the three tables, the last one written
\* by an update in place of both the vote and the petition details
AtMostOneRowPerPairWitness ==
  /\ Done(1)
  /\ Cardinality(votes) = 2
  /\ Cardinality(comment_votes) = 2
  /\ Cardinality(petition_details) = 2
  /\ calls[1] = <<"SELECT users", "SELECT proposals", "SELECT votes", "UPDATE votes",
                  "SELECT petition_details", "UPDATE petition_details">>

(* C4: with requests interleaved at single store calls, a handler that read
   "no existing vote" for its pair inserts a row whatever the table holds
   by the time it writes, so that two requests which both read before
   either writes leave two vote rows for the same pair. *)
StaleReadStillInserts ==
  [][\A p \in Procs :
       (/\ pc[p] \in {"vote_write", "comment_vote_write"}
        /\ pc'[p] # pc[p]
        /\ existingVote[p] = NoRow) =>
         Cardinality(PairRows(Snapshot', req[p])) = Cardinality(PairRows(Snapshot, req[p])) + 1]_vars

\* two first votes of the same pair have both been answered 200 and the
\* pair has two vote rows
StaleReadStillInsertsWitness ==
  /\ Done(1) /\ Done(2)
  /\ req[1].kind = "vote" /\ req[2].kind = "vote"
  /\ calls[1][Len(calls[1])] = "INSERT votes"
  /\ calls[2][Len(calls[2])] = "INSERT votes"
  /\ resp[1].status = 200 /\ resp[2].status = 200
  /\ Cardinality(VotesOf(votes, "p1", "u1")) = 2

(* C5: a vote request (proposal or comment) rejected by validation or by an
   existence check leaves votes, comment_votes and petition_details as they
   were when it arrived: a missing field or a voteType outside
   {upvote, downvote} gets 400 and no store call is made; with a valid
   voteType, a userId or subject id that matches no row gets 404 after
   existence SELECTs only (no vote lookup, no write). *)
RejectedLeavesTablesUnchanged ==
  \A p \in Procs :
    (Done(p) /\ req[p].kind \in {"vote", "comment_vote"}) =>
      LET r == req[p]
          subject == IF r.kind = "vote" THEN r.proposalId ELSE r.commentId
          subjects == IF r.kind = "vote" THEN ProposalIds ELSE comments
          invalid == r.voteType \notin VoteTypes \/ subject = "" \/ r.userId = ""
          unknown == ~ invalid /\ (~ UserExists(r.userId) \/ subject \notin subjects)
      IN /\ invalid =>
              /\ resp[p].status = 400
              /\ calls[p] = <<>>
              /\ Snapshot = pre[p]
         /\ unknown =>
              /\ resp[p].status = 404
              /\ \A i \in 1..Len(calls[p]) :
                   calls[p][i] \in {"SELECT users", "SELECT proposals", "SELECT comments"}
              /\ Snapshot = pre[p]

\* a vote naming an unknown user has been answered 404 while the tables hold rows
RejectedLeavesTablesUnchangedWitness ==
  /\ Done(1)
  /\ req[1].kind = "vote"
  /\ req[1].voteType = "upvote"
  /\ ~ UserExists(req[1].userId)
  /\ resp[1].status = 404
  /\ votes # {}
  /\ petition_details # {}

\* exactly one petition_details row for the pair of the request in slot p,
\* holding the five fields of the request and verified = 1
PetitionStored(p) ==
  LET r == req[p]
      rows == VotesOf(petition_details, r.proposalId, r.userId) IN
  /\ Cardinality(rows) = 1
  /\ \A d \in rows :
       /\ d.full_name = r.petitionDetails.fullName
       /\ d.address = r.petitionDetails.address
       /\ d.postcode = r.petitionDetails.postcode
       /\ d.dob = r.petitionDetails.dob
       /\ d.email = r.petitionDetails.email
       /\ d.verified = 1

\* an accepted upvote with isPetition true and complete petitionDetails
PetitionUpvote(p) ==
  /\ Done(p)
  /\ AcceptedVote(req[p])
  /\ req[p].voteType = "upvote"
  /\ req[p].isPetition
  /\ AllFiveFields(req[p].petitionDetails)

(* C6 as stated: after every accepted upvote with isPetition true and all
   five petition fields, whatever vote the pair held before, exactly one
   petition_details row exists for the pair, with the five supplied fields
   and verified = 1. *)
PetitionUpsertedWhateverVoteHeld ==
  \A p \in Procs : PetitionUpvote(p) => PetitionStored(p)

(* C6 as amended: after every accepted upvote with isPetition true and all
   five petition fields, made while the pair held no upvote (no vote, or a
   downvote), exactly one petition_details row exists for the pair, with the
   five supplied fields and verified = 1; made while the pair held an
   upvote, the request only removes the vote and petition_details stays as
   it was. *)
PetitionUpsertedUnlessToggleOff ==
  \A p \in Procs :
    PetitionUpvote(p) =>
      IF HeldUpvote(p)
      THEN /\ petition_details = pre[p].petition_details
           /\ VotesOf(votes, req[p].proposalId, req[p].userId) = {}
      ELSE PetitionStored(p)

\* the pair held a downvote and the details of DetailsB; the request has
\* overwritten them with DetailsA
PetitionUpsertedWitness ==
  /\ PetitionUpvote(1)
  /\ req[1].petitionDetails = DetailsA
  /\ \E v \in PairRows(pre[1], req[1]) : v.vote_type = "downvote"
  /\ \E d \in VotesOf(pre[1].petition_details, req[1].proposalId, req[1].userId) :
       d.email = DetailsB.email
  /\ PetitionStored(1)

\* an accepted upvote with isPetition true whose petitionDetails lacks a field
IncompletePetitionUpvote(p) ==
  /\ Done(p)
  /\ AcceptedVote(req[p])
  /\ req[p].voteType = "upvote"
  /\ req[p].isPetition
  /\ req[p].petitionDetails # NoDetails
  /\ ~ AllFiveFields(req[p].petitionDetails)

\* 400, the vote written by the request is an upvote row of the pair, and
\* petition_details is as it was
VoteKeptPetitionRejected(p) ==
  /\ resp[p].status = 400
  /\ resp[p].body.error = "Missing required petition details"
  /\ votes # pre[p].votes
  /\ VotesOf(votes, req[p].proposalId, req[p].userId) # {}
  /\ \A v \in VotesOf(votes, req[p].proposalId, req[p].userId) : v.vote_type = "upvote"
  /\ petition_details = pre[p].petition_details

(* C7 as stated: every upvote with isPetition true whose petitionDetails
   lacks one of the five fields is answered 400, after which the pair has a
   vote row of type upvote and petition_details is unchanged. *)
IncompletePetitionAlwaysRejected ==
  \A p \in Procs : IncompletePetitionUpvote(p) => VoteKeptPetitionRejected(p)

(* C7 as amended: every upvote with isPetition true whose petitionDetails
   lacks one of the five fields, made while the pair held no upvote (so that
   the request inserts or updates the vote), is answered 400, after which
   the pair has a vote row of type upvote and petition_details is
   unchanged. *)
IncompletePetitionRejectedAfterWrite ==
  \A p \in Procs :
    (IncompletePetitionUpvote(p) /\ ~ HeldUpvote(p)) => VoteKeptPetitionRejected(p)

\* the pair held a downvote: the request has turned it into an upvote and
\* was then answered 400 for its petition part
IncompletePetitionWitness ==
  /\ IncompletePetitionUpvote(1)
  /\ req[1].petitionDetails = Lacking("email")
  /\ \E v \in PairRows(pre[1], req[1]) : v.vote_type = "downvote"
  /\ petition_details # {}
  /\ VoteKeptPetitionRejected(1)

(* C8: petition_details changes only in a step of a createOrUpdateVote
   request whose voteType is upvote, whose isPetition is true and which
   supplies petitionDetails; every step of every other request leaves it
   unchanged. *)
PetitionDetailsFrame ==
  [][petition_details' # petition_details =>
       \E p \in Procs :
         /\ pc'[p] # pc[p]
         /\ req[p].kind = "vote"
         /\ req[p].voteType = "upvote"
         /\ req[p].isPetition
         /\ req[p].petitionDetails # NoDetails]_vars

\* petition details are stored, and a downvote carrying isPetition and
\* details has since been handled without touching them
PetitionDetailsFrameWitness ==
  /\ Done(1)
  /\ req[1].kind = "vote"
  /\ req[1].voteType = "downvote"
  /\ req[1].isPetition
  /\ req[1].petitionDetails = DetailsA
  /\ resp[1].status = 200
  /\ petition_details # {}
  /\ petition_details = pre[1].petition_details

\* ------------------------------------------------------ share image
\* the input text has a character that is not a space
HasWord(text) == \E i \in 1..Len(text) : text[i] # " "

EndsInEllipsis(line) ==
  Len(line) >= 3 /\ SubSeq(line, Len(line) - 2, Len(line)) = <<".", ".", ".">>

\* at most six lines; exactly six, the sixth ending in "...", when the text
\* wraps into more than six
SixLinesAtMost ==
  /\ Len(svgOut.lines) <= 6
  /\ Len(WrapLines(svgIn.text, svgIn.width)) > 6 =>
       /\ Len(svgOut.lines) = 6
       /\ EndsInEllipsis(svgOut.lines[6].content)

(* C9 as stated: generateSVGTextLines emits at most 6 lines; a text no
   longer than the per-line budget floor(width / 22) (43 for width 960)
   yields exactly one line; a text that wraps into more than 6 lines yields
   exactly 6, the 6th ending in "...". *)
ShortTextIsOneLine ==
  svgOut.rendered =>
    /\ charsPerLine(960) = 43
    /\ SixLinesAtMost
    /\ Len(svgIn.text) <= charsPerLine(svgIn.width) => Len(svgOut.lines) = 1

(* C9 as amended: generateSVGTextLines emits at most 6 lines; a text no
   longer than the per-line budget floor(width / 22) (43 for width 960)
   yields exactly one line when it has a character other than a space, and
   no line when it is empty or made of spaces only; a text that wraps into
   more than 6 lines yields exactly 6, the 6th ending in "...". *)
ShortTextIsOneLineUnlessBlank ==
  svgOut.rendered =>
    /\ charsPerLine(960) = 43
    /\ SixLinesAtMost
    /\ Len(svgIn.text) <= charsPerLine(svgIn.width) =>
         Len(svgOut.lines) = (IF HasWord(svgIn.text) THEN 1 ELSE 0)

\* seven one-letter words at a budget of two characters: six lines are
\* emitted and the sixth is the ellipsis
WrapTruncatedWitness ==
  /\ svgOut.rendered
  /\ svgIn.width = 44
  /\ Len(WrapLines(svgIn.text, svgIn.width)) = 7
  /\ Len(svgOut.lines) = 6
  /\ svgOut.lines[6].content = <<".", ".", ".">>
  /\ svgOut.lines[6].y = 220 + 5 * 46

Entities ==
  { [char |-> "&", entity |-> AmpEntity], [char |-> "<", entity |-> LtEntity],
    [char |-> ">", entity |-> GtEntity], [char |-> "\"", entity |-> QuotEntity],
    [char |-> "'", entity |-> AposEntity] }

EntityAt(s, i) ==
  {e \in Entities : /\ i + Len(e.entity) - 1 <= Len(s)
                    /\ SubSeq(s, i, i + Len(e.entity) - 1) = e.entity}

\* none of the five characters stands in s other than the & that opens one
\* of the five entities
NoRawChar(s) ==
  \A i \in 1..Len(s) :
    /\ s[i] \notin {"<", ">", "\"", "'"}
    /\ s[i] = "&" => EntityAt(s, i) # {}

\* s with every entity read back as its character
RECURSIVE Unescape(_)
Unescape(s) ==
  IF s = <<>> THEN <<>>
  ELSE IF EntityAt(s, 1) # {}
       THEN LET e == CHOOSE e \in EntityAt(s, 1) : TRUE
            IN <<e.char>> \o Unescape(SubSeq(s, Len(e.entity) + 1, Len(s)))
       ELSE <<Head(s)>> \o Unescape(Tail(s))

\* the strings of the input proposal that the template embeds, in order
EmbeddedValues ==
  LET p == svgIn.proposal
      petitionText == IF p.text = <<>>
                      THEN <<"U", "n", "k", "n", "o", "w", "n", " ", "p", "e", "t", "i", "t", "i", "o", "n">>
                      ELSE p.text
      proposalId == IF p.id = <<>> THEN <<"u", "n", "k", "n", "o", "w", "n">> ELSE p.id
  IN LimitLines(WrapLines(petitionText, 960)) \o <<proposalId, Last6(proposalId)>>

EmbeddedParts == SelectSeq(svgOut.parts, LAMBDA part : part.from \in {"text", "id", "author_name"})

(* C10: in the markup of the share image every value interpolated from the
   input proposal (petition text, proposal id, author name) is escaped: no
   raw & < > " ' of an input field remains, each being replaced by its
   entity. *)
InterpolatedValuesEscaped ==
  svgOut.rendered =>
    /\ Len(EmbeddedParts) = Len(EmbeddedValues)
    /\ \A i \in 1..Len(EmbeddedParts) :
         /\ NoRawChar(EmbeddedParts[i].chars)
         /\ Unescape(EmbeddedParts[i].chars) = EmbeddedValues[i]

\* the part of C10 that the renderer keeps: the lines of the petition text
\* are escaped
TextLinesEscaped ==
  svgOut.rendered =>
    \A i \in 1..Len(EmbeddedParts) :
      EmbeddedParts[i].from = "text" =>
        /\ NoRawChar(EmbeddedParts[i].chars)
        /\ Unescape(EmbeddedParts[i].chars) = EmbeddedValues[i]

\* a text holding unsafe characters was rendered
TextLinesEscapedWitness ==
  /\ svgOut.rendered
  /\ svgIn.proposal.text = <<"<", "&">>
  /\ svgOut.parts[1] = [from |-> "text", chars |-> LtEntity \o AmpEntity]

(* C11: generatePetitionSVG is deterministic in its input: two calls with
   equal proposal records, made at any two moments, return identical
   markup, also when the timestamp of the record is absent or 0. *)
SameRecordSameMarkup ==
  svgOut.calls = 2 => svgOut.first = svgOut.second

\* what remains of C11: a record that carries a timestamp is rendered the
\* same at every moment
StampedRecordSameMarkup ==
  (svgOut.calls = 2 /\ svgIn.proposal.timestamp # 0) => svgOut.first = svgOut.second

StampedRecordSameMarkupWitness ==
  /\ svgOut.calls = 2
  /\ svgIn.proposal.timestamp # 0
  /\ svgIn.now < svgIn.later
  /\ svgOut.first = svgOut.second

\* ------------------------------------------------------- share page
\* the og:image / twitter:image keys (with or without a :suffix) that stand
\* in a property= or name= attribute of s, wherever the attribute is
ImageKeys(s) ==
  { i \in 3..Len(s) :
      /\ \/ s[i] = "og:image" /\ s[i - 2] = "property="
         \/ s[i] = "twitter:image" /\ s[i - 2] = "name="
      /\ s[i - 1] \in Quotes
      /\ i < Len(s) /\ s[i + 1] \in Quotes \cup {":"} }

Customised == svgOut.rendered /\ PageProposal(svgIn) # NoRow

(* C12: the document returned by serveCustomizedHtml contains none of the
   og:image / og:image:* / twitter:image / twitter:image:* meta tags of the
   fetched base document, whatever the order of their attributes: the only
   such tags in the output are those of the injected block. *)
OnlyInjectedImageTags ==
  Customised =>
    Cardinality(ImageKeys(svgOut.response.body)) =
      (IF svgOut.response.customMeta = "none" THEN 0
       ELSE Cardinality(ImageKeys(PageBlock(svgIn))))

\* the positions of the closing head marker in s
HeadMarkers(s) == {i \in 1..Len(s) - 1 : s[i] = "</head" /\ s[i + 1] = ">"}

Occurs(sub, s) ==
  \E i \in 0..Len(s) - Len(sub) : SubSeq(s, i + 1, i + Len(sub)) = sub

(* C13: when the stripped base document has a closing head marker, the
   output is stripped[0..i) + block + stripped[i..] with i the position of
   the first marker; the title of the block carries at most the first 60
   characters of the proposal text and the description at most the first
   150; without a marker the stripped document is returned unchanged,
   without the block. *)
BlockBeforeFirstHeadEnd ==
  Customised =>
    LET stripped == StripImageTags(svgIn.html)
        body == svgOut.response.body
        text == PageProposal(svgIn).text
    IN IF HeadMarkers(stripped) = {}
       THEN body = stripped
       ELSE LET i == CHOOSE i \in HeadMarkers(stripped) : \A j \in HeadMarkers(stripped) : i <= j
                block == SubSeq(body, i, Len(body) - (Len(stripped) - i + 1))
            IN /\ SubSeq(body, 1, i - 1) = SubSeq(stripped, 1, i - 1)
               /\ SubSeq(body, Len(body) - (Len(stripped) - i), Len(body))
                    = SubSeq(stripped, i, Len(stripped))
               /\ block = PageBlock(svgIn)
               /\ \E n \in 0..60 :
                    /\ n <= Len(text) /\ (n < 60 => n = Len(text))
                    /\ Occurs(MetaTag("name=", <<"title">>,
                                      <<"RADICAL Petition: ">> \o SubSeq(text, 1, n)), block)
               /\ \E n \in 0..150 :
                    /\ n <= Len(text) /\ (n < 150 => n = Len(text))
                    /\ Occurs(MetaTag("name=", <<"description">>, SubSeq(text, 1, n)), block)

\* a page with two closing head markers, customised for a proposal whose
\* text is longer than the title allows
BlockBeforeFirstHeadEndWitness ==
  /\ Customised
  /\ Cardinality(HeadMarkers(StripImageTags(svgIn.html))) = 2
  /\ svgIn.html # StripImageTags(svgIn.html)
  /\ Len(PageProposal(svgIn).text) = 61
  /\ svgOut.response.customMeta = "proposal"
  /\ Len(svgOut.response.body) = Len(StripImageTags(svgIn.html)) + Len(PageBlock(svgIn))

\* ------------------------------------------------------------ the board
NetVotes(row) == row.upvotes - row.downvotes

\* slot p has answered a listing of the proposals under sortBy
Listed(p, sortBy) ==
  /\ Done(p)
  /\ req[p].kind = "http"
  /\ req[p].method = "GET" /\ req[p].path = <<"api", "proposals">>
  /\ req[p].params.sortBy = sortBy
  /\ resp[p].status = 200

(* C14: GET /api/proposals?sortBy=popular returns the rows in non-increasing
   order of upvotes - downvotes: of any two consecutive rows the first has a
   net vote count greater than or equal to the second's. *)
PopularByNetVotes ==
  \A p \in Procs :
    Listed(p, "popular") =>
      LET data == resp[p].body.data IN
      \A i \in 1..Len(data) - 1 : NetVotes(data[i]) >= NetVotes(data[i + 1])

\* what the popular listing keeps: non-increasing upvotes
PopularByUpvotes ==
  \A p \in Procs :
    Listed(p, "popular") =>
      LET data == resp[p].body.data IN
      \A i \in 1..Len(data) - 1 : data[i].upvotes >= data[i + 1].upvotes

PopularByUpvotesWitness ==
  /\ Listed(1, "popular")
  /\ Len(resp[1].body.data) = 2
  /\ resp[1].body.data[1].upvotes = 1
  /\ resp[1].body.data[2].downvotes = 1

\* -------------------------------------------------------- meme uploads
\* this step is slot p serving a whole request, the other slots unused
Serves(p) ==
  /\ Idle(p)
  /\ pc'[p] = "done"
  /\ req'[p].kind = "http"
  /\ \A q \in Procs \ {p} : pc[q] = "idle" /\ pc'[q] = "idle"

IsUpload(r) == r.kind = "http" /\ r.method = "POST" /\ r.path = <<"api", "memes">>

\* the file of r has a type outside the four image types or more bytes than
\* 2 * 1024 * 1024
BadFile(r) ==
  /\ r.params.file # NoFile
  /\ \/ r.params.file.type \notin {"image/jpeg", "image/png", "image/gif", "image/webp"}
     \/ r.params.file.size > 2 * 1024 * 1024

(* C15: an upload whose file has a MIME type outside image/jpeg, image/png,
   image/gif, image/webp, or a size above 2*1024*1024 bytes, is answered 400,
   stores no blob and updates no proposal row (a 3 MB JPEG is answered
   'File too large...'); a file of one of the four types and of exactly
   2*1024*1024 bytes is not refused by the validation. *)
BadUploadRefused ==
  [][\A p \in Procs :
       Serves(p) /\ IsUpload(req'[p]) =>
         LET r == req'[p] IN
         /\ BadFile(r) =>
              /\ resp'[p].status = 400
              /\ bucket' = bucket
              /\ proposals' = proposals
         /\ (r.params.proposalId # "" /\ r.params.file # NoFile
               /\ r.params.file.type = "image/jpeg" /\ r.params.file.size = 3 * 1024 * 1024) =>
              resp'[p].body = [error |-> "File too large. Maximum size is 2MB."]
         /\ (r.params.proposalId # "" /\ r.params.file # NoFile /\ ~BadFile(r)
               /\ r.params.file.size = 2 * 1024 * 1024) =>
              resp'[p].status # 400]_vars

\* a JPEG one byte above the limit has been refused after an earlier upload
\* had stored a blob and set the proposal's meme_url
BadUploadRefusedWitness ==
  /\ Done(1) /\ IsUpload(req[1])
  /\ req[1].params.proposalId = "p1"
  /\ req[1].params.file = [type |-> "image/jpeg", size |-> 2 * 1024 * 1024 + 1]
  /\ resp[1].status = 400
  /\ bucket # {}
  /\ \E row \in proposals : row.meme_url # NoUrl

\* ------------------------------------------------------------ the router
(* C16: every request whose method is OPTIONS is answered with a status
   below 400 and the CORS headers. *)
PreflightAllowed ==
  \A p \in Procs :
    (Done(p) /\ req[p].kind = "http" /\ req[p].method = "OPTIONS") =>
      /\ resp[p].status < 400
      /\ resp[p].headers.cors

\* the path of the request r
PathOf(r) ==
  IF r.kind = "http" THEN r.path
  ELSE IF r.kind = "vote" THEN <<"api", "votes">>
  ELSE IF r.kind = "comment_vote" THEN <<"api", "comment-votes">>
  ELSE <<"api", "users">>

\* the Cache-Control value of a path in the table of cache rules
TableCacheControl(path) ==
  IF path = <<"api", "health">> THEN "public, max-age=3600"
  ELSE IF path = <<"api", "proposals">> THEN "public, max-age=300, stale-while-revalidate=60"
  ELSE IF path = <<"api", "comments">> THEN "public, max-age=60, stale-while-revalidate=30"
  ELSE "no-cache"

(* C17: the Cache-Control header of every JSON response equals the value the
   table of cache rules gives the request's path: 'public, max-age=3600' for
   /api/health, 'public, max-age=300, stale-while-revalidate=60' for
   /api/proposals, 'public, max-age=60, stale-while-revalidate=30' for
   /api/comments and 'no-cache' for every other path, POST /api/votes and
   error responses included. *)
CacheControlFromTable ==
  \A p \in Procs :
    (Done(p) /\ resp[p].headers.contentType = "application/json") =>
      resp[p].headers.cacheControl = TableCacheControl(PathOf(req[p]))

\* what every JSON response carries instead: one day of public caching
CacheControlOneDay ==
  \A p \in Procs :
    (Done(p) /\ resp[p].headers.contentType = "application/json") =>
      resp[p].headers.cacheControl = "public, max-age=86400"

\* ------------------------------------------------- referenced entities
IsPost(r, path) == r.kind = "http" /\ r.method = "POST" /\ r.path = path
IsGetById(r) ==
  r.kind = "http" /\ r.method = "GET" /\ Len(r.path) = 3
    /\ SubSeq(r.path, 1, 2) = <<"api", "proposals">>

\* the request r, complete in its fields, names a user, a proposal or a
\* comment of which the store has no row
NamesAbsentEntity(r) ==
  \/ IsPost(r, <<"api", "proposals">>) /\ r.params.text # "" /\ r.params.authorId # ""
       /\ ~UserExists(r.params.authorId)
  \/ IsPost(r, <<"api", "comments">>) /\ r.params.commentText # ""
       /\ r.params.proposalId # "" /\ r.params.userId # ""
       /\ (r.params.proposalId \notin ProposalIds \/ ~UserExists(r.params.userId))
  \/ r.kind = "vote" /\ r.voteType \in VoteTypes /\ r.proposalId # "" /\ r.userId # ""
       /\ (r.proposalId \notin ProposalIds \/ ~UserExists(r.userId))
  \/ r.kind = "comment_vote" /\ r.voteType \in VoteTypes /\ r.commentId # "" /\ r.userId # ""
       /\ (r.commentId \notin comments \/ ~UserExists(r.userId))
  \/ IsGetById(r) /\ r.path[3] \notin ProposalIds

(* C18: every handler that looks up a referenced entity answers 404 when the
   entity is absent: the author of a new proposal, the proposal and the user
   of a vote or a comment, the comment of a comment vote, and the proposal
   asked for by id ('Proposal not found'); no such case is answered 200 or
   400. *)
AbsentEntityNotFound ==
  \A p \in Procs :
    (Done(p) /\ NamesAbsentEntity(req[p])) =>
      /\ resp[p].status = 404
      /\ IsGetById(req[p]) => resp[p].body = [error |-> "Proposal not found"]

\* the same with the author of a new proposal left out
AbsentEntityNotFoundButAuthor ==
  \A p \in Procs :
    (Done(p) /\ NamesAbsentEntity(req[p]) /\ ~IsPost(req[p], <<"api", "proposals">>)) =>
      /\ resp[p].status = 404
      /\ IsGetById(req[p]) => resp[p].body = [error |-> "Proposal not found"]

\* ------------------------------------------------------------ users rows
\* the user id that the request r, complete in its fields, gives for the
\* author of a proposal or a comment or for a voter; "" when it gives none
NamedUser(r) ==
  IF IsPost(r, <<"api", "proposals">>) /\ r.params.text # ""
  THEN r.params.authorId
  ELSE IF IsPost(r, <<"api", "comments">>) /\ r.params.commentText # ""
            /\ r.params.proposalId \in ProposalIds
  THEN r.params.userId
  ELSE IF r.kind = "vote" /\ r.voteType \in VoteTypes /\ r.proposalId \in ProposalIds
  THEN r.userId
  ELSE ""

NoUsersRowDeleted == [][users \subseteq users']_vars

(* C19: a users row is created the first time an unseen user id is used, be
   it by a create-proposal, a create-comment, a vote or an explicit
   createOrGetUser request: once such a request has been answered the users
   table has a row with its user id; and no request deletes a users row. *)
UnseenUserGetsRow ==
  /\ [](\A p \in Procs :
          Done(p) =>
            /\ NamedUser(req[p]) # "" => UserExists(NamedUser(req[p]))
            /\ (req[p].kind = "user" /\ resp[p].status = 200) => UserExists(req[p].id))
  /\ NoUsersRowDeleted

\* of these requests createOrGetUser alone writes a users row, for an id
\* that has no row; a create-proposal, create-comment or vote request of an
\* unseen user id is refused (400 or 404) and writes no users row; no step
\* deletes a users row
UsersRowFromCreateUserOnly ==
  /\ [](\A p \in Procs :
          Done(p) =>
            /\ (NamedUser(req[p]) # "" /\ ~UserExists(NamedUser(req[p]))) =>
                 resp[p].status \in {400, 404}
            /\ (req[p].kind = "user" /\ resp[p].status = 200) => UserExists(req[p].id))
  /\ [][/\ users \subseteq users'
        /\ \A u \in users' \ users :
             /\ ~UserExists(u.id)
             /\ \E p \in Procs :
                  pc[p] = "user_write" /\ req[p].kind = "user" /\ req[p].id = u.id]_vars

\* createOrGetUser has written the row of the unseen id u2
UsersRowFromCreateUserOnlyWitness ==
  /\ Done(1)
  /\ req[1] = UserRequest("u2", "n1")
  /\ calls[1] = <<"SELECT users", "INSERT users">>
  /\ users = {[id |-> "u1", name |-> "n1"], [id |-> "u2", name |-> "n1"]}

\* --------------------------------------------------------- failed calls
Range(s) == {s[i] : i \in DOMAIN s}

\* the calls of slot p's request that were made and failed
FailedCalls(p) == Range(calls[p]) \cap req[p].env.fails

\* no call that failed was made a second time
NoRetry(p) ==
  \A c \in FailedCalls(p) : Cardinality({i \in DOMAIN calls[p] : calls[p][i] = c}) = 1

(* C20: whenever a call of the store or of the bucket fails, the response is
   500: no success is reported after a failed downstream call, and no failed
   call is retried. *)
FailedCallAnswered500 ==
  \A p \in Procs :
    (Done(p) /\ req[p].kind = "http" /\ FailedCalls(p) # {}) =>
      /\ resp[p].status = 500
      /\ NoRetry(p)

\* the calls whose failure the handler of r catches and goes on from: the
\* share image's upload and the write of its URL in createProposal, the
\* lookups of the user's vote in getProposalById, tableExists in healthCheck,
\* and the removal of the blob after uploadMeme's UPDATE has failed
Tolerated(r) ==
  IF IsPost(r, <<"api", "proposals">>) THEN {"PUT bucket", "UPDATE proposals"}
  ELSE IF IsGetById(r) THEN {"SELECT votes", "SELECT petition_details"}
  ELSE IF r.path = <<"api", "health">> THEN {"SELECT sqlite_master"}
  ELSE IF IsPost(r, <<"api", "memes">>) THEN {"DELETE bucket"}
  ELSE {}

\* a failed call is answered 500 unless it is one the handler tolerates;
\* when only tolerated calls have failed the response is the 200 of the
\* request; no failed call is made again
FailedCallAnswered500UnlessTolerated ==
  \A p \in Procs :
    (Done(p) /\ req[p].kind = "http" /\ FailedCalls(p) # {}) =>
      /\ resp[p].status = IF FailedCalls(p) \subseteq Tolerated(req[p]) THEN 200 ELSE 500
      /\ NoRetry(p)

\* the UPDATE of an upload has failed: the blob was stored and removed again
\* and the response is 500
FailedCallAnswered500UnlessToleratedWitness ==
  /\ Done(1) /\ IsUpload(req[1])
  /\ req[1].env.fails = {"UPDATE proposals"}
  /\ calls[1] = <<"PUT bucket", "UPDATE proposals", "DELETE bucket">>
  /\ resp[1].status = 500
  /\ bucket = {}
  /\ edgeCache = {}
  /\ swCaches = NoCaches

\* ------------------------------------------------- the same vote twice
\* slot p has answered the second of two identical accepted vote requests
\* that came one right after the other
RepeatedVote(p) == Done(p) /\ ToggleRequest(req[p]) /\ last.req = req[p]

(* C21: for every (subject, user) pair with existing subject and user, and
   whatever vote the pair held before (none, the same type or the opposite
   type), casting the same voteType twice in succession, with no other
   request in between, leaves the pair with no vote row. *)
RepeatLeavesNoRow ==
  \A p \in Procs : RepeatedVote(p) => PairRows(Snapshot, req[p]) = {}

\* the same voteType twice in succession leaves the pair with no vote row
\* when it held no vote or the opposite type before the two requests, and
\* with exactly one row of that type when it already held that type
RepeatLeavesNoRowUnlessHeld ==
  \A p \in Procs :
    RepeatedVote(p) =>
      LET rows == PairRows(Snapshot, req[p]) IN
      IF req[p].voteType \in last.held
      THEN Cardinality(rows) = 1 /\ \A v \in rows : v.vote_type = req[p].voteType
      ELSE rows = {}

\* u1 held an upvote on p1, upvoted twice in succession and holds an upvote
RepeatLeavesNoRowUnlessHeldWitness ==
  /\ RepeatedVote(1)
  /\ req[1] = VoteRequest("p1", "u1", "upvote", FALSE, NoDetails)
  /\ last.held = {"upvote"}
  /\ \E v \in votes : v.user_id = "u1" /\ v.vote_type = "upvote"

\* -------------------------------------------------- petition statistics
IsStats(r) == r.kind = "http" /\ r.method = "GET" /\ r.path = <<"api", "petition-stats">>

(* C22: getPetitionStats answers 404 with error 'Proposal not found'
   whenever the proposalId query parameter matches no row of the proposals
   table, and answers 200 with statistics only for an existing proposal. *)
StatsOfAbsentProposalNotFound ==
  \A p \in Procs :
    (Done(p) /\ IsStats(req[p]) /\ req[p].params.proposalId # "") =>
      IF req[p].params.proposalId \in ProposalIds
      THEN resp[p].status = 200
      ELSE resp[p].status = 404 /\ resp[p].body = [error |-> "Proposal not found"]

\* what the handler does instead: 200 for every proposalId given
StatsAlwaysAnswered ==
  \A p \in Procs :
    (Done(p) /\ IsStats(req[p]) /\ req[p].params.proposalId # "") => resp[p].status = 200

\* ------------------------------------------------ petition-flagged votes
(* C23: in every reachable store state, also under arbitrarily interleaved
   vote requests, every votes row whose is_petition flag is 1 has vote_type
   'upvote': no downvote row is flagged as a petition signature. *)
PetitionFlagOnlyOnUpvotes ==
  \A v \in votes : v.is_petition = 1 => v.vote_type = "upvote"

\* interleaved requests have left the pair with two rows, one a flagged
\* upvote written by an update, the other a downvote
PetitionFlagOnlyOnUpvotesWitness ==
  /\ \E v \in votes : v.is_petition = 1 /\ v.vote_type = "upvote"
  /\ \E v \in votes : v.vote_type = "downvote"
  /\ \E p \in Procs : Done(p) /\ req[p].isPetition /\ calls[p][Len(calls[p])] = "UPDATE votes"

\* ------------------------------------ petition details after a withdrawal
\* slot p has answered a vote request that removed the pair's vote
\* (toggle-off) or asked for a downvote
WithdrawnVote(p) ==
  /\ Done(p)
  /\ AcceptedVote(req[p])
  /\ resp[p].status = 200
  /\ resp[p].body.voteType = NULL \/ req[p].voteType = "downvote"

(* C24: removing a proposal vote (toggle-off) or flipping it to a downvote
   neither deletes nor modifies a petition_details row: after a verified
   petition upvote followed by a toggle-off or a downvote of the same user
   the pair's petition_details row is still there with verified = 1, so the
   verified petitioners of a proposal can outnumber its petition-flagged
   upvotes. *)
WithdrawalKeepsPetitionDetails ==
  \A p \in Procs :
    WithdrawnVote(p) =>
      /\ petition_details = pre[p].petition_details
      /\ \A d \in VotesOf(petition_details, req[p].proposalId, req[p].userId) : d.verified = 1

\* after u1's petition upvote and its withdrawal the statistics of p1 show
\* one verified petitioner and no petition signature
WithdrawalKeepsPetitionDetailsWitness ==
  /\ Done(1) /\ IsStats(req[1])
  /\ resp[1].status = 200
  /\ resp[1].body.verifiedSignatures = 1
  /\ resp[1].body.totalSignatures = 0
  /\ \E d \in petition_details : d.user_id = "u1" /\ d.proposal_id = "p1" /\ d.verified = 1
  /\ ~ \E v \in votes : v.is_petition = 1

\* ------------------------------------------------ the vote a response names
(* C25: whenever createOrUpdateVote or createOrUpdateCommentVote responds 200
   with a non-null voteType, the store holds a row of that (subject, user)
   pair with that vote_type at the moment the handler's write completes,
   also when another request for the pair runs between the handler's read
   of the existing vote and its write. *)
AnsweredVoteIsStored ==
  [][\A p \in Procs :
       (/\ pc[p] # "done" /\ pc'[p] = "done"
        /\ req[p].kind \in {"vote", "comment_vote"}
        /\ resp'[p].status = 200
        /\ resp'[p].body.voteType # NULL) =>
         IF req[p].kind = "vote"
         THEN \E v \in VotesOf(votes', req[p].proposalId, req[p].userId) :
                v.vote_type = resp'[p].body.voteType
         ELSE \E v \in CommentVotesOf(comment_votes', req[p].commentId, req[p].userId) :
                v.vote_type = resp'[p].body.voteType]_vars

\* ------------------------------------------------------- the edge cache
(* C26: in the caching router only successful responses enter the edge
   cache: a GET response with status 404 or 500 for /api/proposals*,
   /api/comments*, /api/petition-stats or /api/health is never stored under
   the request's cache key, so a later identical GET is never answered from
   the cache with an earlier error. *)
NoErrorCached ==
  /\ \A e \in edgeCache : e.response.status \notin {404, 500}
  /\ \A p \in Procs :
       (Done(p) /\ calls[p] = <<"caches.match">>) => resp[p].status \notin {404, 500}

\* what the router keeps: every response of a GET for a cacheable path is
\* under its key, whatever its status
EveryCacheableResponseCached ==
  \A p \in Procs :
    (Done(p) /\ req[p].kind = "http" /\ req[p].method = "GET" /\ shouldCache(req[p].path)) =>
      \E e \in edgeCache : e.key = CacheKey(req[p]) /\ e.response.status = resp[p].status

\* --------------------------------------------- the service worker's cache
(* C27: after any sequence of install, activate and fetch events the fetch
   handler has put into the cache no response whose request URL contains
   '/api/' and no response whose status is not 200 or whose type is not
   'basic'; and a request that matches a cache entry is answered with that
   entry without any network fetch. *)
FetchCachesOnlyGoodPages ==
  /\ [](\A e \in swCaches :
          e.by = "fetch" => ~IncludesApi(e.url) /\ e.status = 200 /\ e.type = "basic")
  /\ [][\A p \in Procs :
          (/\ Idle(p) /\ pc'[p] = "done" /\ req'[p].kind = "sw"
           /\ <<req[p], resp[p], calls[p]>> # <<req'[p], resp'[p], calls'[p]>>
           /\ SwMatch(req'[p]) # {}) =>
            /\ calls'[p] = <<"caches.match">>
            /\ \E e \in SwMatch(req'[p]) : resp'[p] = SwResponse(e)
            /\ swCaches' = swCaches]_vars

\* the page has been fetched over the network and put into the cache by the
\* fetch handler, then asked for again and answered from the cache
FetchCachesOnlyGoodPagesWitness ==
  /\ Done(1)
  /\ req[1] = SwRequest("GET", Url("same", <<"app.js">>))
  /\ calls[1] = <<"caches.match">>
  /\ \E e \in swCaches : e.by = "fetch" /\ e.url = req[1].url /\ resp[1] = SwResponse(e)

\* ---------------------------------------------------- the user returned
(* C28: for every createOrGetUser request answered 200, the name in the
   response equals the name stored in the users row with the requested id
   after the call, also when the id already existed with a different name
   (the stored row is then left unchanged). *)
ReturnedNameIsStoredName ==
  \A p \in Procs :
    (Done(p) /\ req[p].kind = "user" /\ resp[p].status = 200) =>
      \E u \in users : u.id = req[p].id /\ u.name = resp[p].body.name

\* what holds instead: the response repeats the request, and the row of an
\* id that existed keeps its name
ReturnedNameIsRequestedName ==
  \A p \in Procs :
    (Done(p) /\ req[p].kind = "user" /\ resp[p].status = 200) =>
      /\ resp[p].body = [id |-> req[p].id, name |-> req[p].name]
      /\ \E u \in users : u.id = req[p].id

\* C29: for every page and limit parameter of GET /api/proposals the LIMIT
\* bound to the query is an integer in 1..100 and the OFFSET is at least 0
\* and equals (page - 1) * limit with page at least 1; pagination.hasMore is
\* false whenever no row exists beyond the returned page.
IsListing(r) == r.kind = "http" /\ r.method = "GET" /\ r.path = <<"api", "proposals">>

PageWithinBounds ==
  \A p \in Procs :
    (Done(p) /\ IsListing(req[p]) /\ resp[p].status = 200) =>
      /\ LimitOf(req[p]) \in 1..MAX_PAGE_SIZE
      /\ PageOf(req[p]) >= 1
      /\ OffsetOf(req[p]) >= 0
      /\ OffsetOf(req[p]) = (resp[p].body.pagination.page - 1) * resp[p].body.pagination.limit
      /\ (Cardinality(JoinedProposals) <= OffsetOf(req[p]) + LimitOf(req[p])
            => ~ resp[p].body.pagination.hasMore)

\* its three parts, each on the requests whose parameters are not negative
NonNegative(s) == s = Null \/ s[1] # "-"

LimitWithinBoundsUnlessNegative ==
  \A p \in Procs :
    (Done(p) /\ IsListing(req[p]) /\ resp[p].status = 200 /\ NonNegative(req[p].params.limit)) =>
      LimitOf(req[p]) \in 1..MAX_PAGE_SIZE

OffsetFromStartUnlessNegative ==
  \A p \in Procs :
    (Done(p) /\ IsListing(req[p]) /\ resp[p].status = 200 /\ NonNegative(req[p].params.limit)
       /\ NonNegative(req[p].params.page)) =>
      PageOf(req[p]) >= 1 /\ OffsetOf(req[p]) >= 0

NoMoreAfterLastPage ==
  \A p \in Procs :
    (Done(p) /\ IsListing(req[p]) /\ resp[p].status = 200 /\ NonNegative(req[p].params.limit)
       /\ NonNegative(req[p].params.page)) =>
      (Cardinality(JoinedProposals) <= OffsetOf(req[p]) + LimitOf(req[p])
         => ~ resp[p].body.pagination.hasMore)

\* C30: when uploadMeme completes after storing the blob, the blob is not
\* orphaned: either the response is a success and an existing proposal row
\* has meme_url equal to the returned memeUrl, or the response is an error
\* and the blob has been deleted from the bucket.
BlobKey(r) == <<r.params.proposalId, r.env.now>>

BlobStored(p) ==
  Done(p) /\ IsUpload(req[p]) /\ Len(calls[p]) >= 2 /\ calls[p][1] = "PUT bucket"

BlobNotOrphaned(p) ==
  \/ /\ resp[p].status = 200
     /\ resp[p].body.success
     /\ \E row \in proposals :
          row.id = req[p].params.proposalId /\ row.meme_url = resp[p].body.memeUrl
  \/ /\ resp[p].status # 200
     /\ BlobKey(req[p]) \notin bucket

UploadLeavesNoOrphan == \A p \in Procs : BlobStored(p) => BlobNotOrphaned(p)

\* the same for a proposal that exists while the delete does not fail
UploadToKnownProposalLeavesNoOrphan ==
  \A p \in Procs :
    (BlobStored(p) /\ (\E row \in proposals : row.id = req[p].params.proposalId)
       /\ "DELETE bucket" \notin req[p].env.fails) => BlobNotOrphaned(p)

\* a success for a proposal id that no row has
UploadToAbsentProposal ==
  \E p \in Procs :
    /\ BlobStored(p) /\ resp[p].status = 200
    /\ BlobKey(req[p]) \in bucket
    /\ ~ \E row \in proposals : row.id = req[p].params.proposalId

\* an error whose delete failed
FailedDeleteKeepsBlob ==
  \E p \in Procs :
    BlobStored(p) /\ resp[p].status = 500 /\ BlobKey(req[p]) \in bucket

====
